---- MODULE Spec2Model ----
(***************************************************************************)
(* A model of the ReAct reasoning loop of the research knowledge-graph     *)
(* agent (src/agent.py) and of its Cypher query generator                  *)
(* (src/cypher_generator.py).                                              *)
(*                                                                         *)
(* Texts (questions, LLM responses, Cypher queries, observation summaries) *)
(* are strings, handled character by character with Len, SubSeq and \o.    *)
(* Python values that the code handles dynamically (the result of          *)
(* json.loads, tool arguments, record fields) are tagged records:          *)
(*   [k |-> "null"], [k |-> "bool", b |-> ..], [k |-> "num", n |-> ..],    *)
(*   [k |-> "str", s |-> ..], [k |-> "list", items |-> <<..>>],            *)
(*   [k |-> "dict", items |-> << [key |-> .., val |-> ..], .. >>].         *)
(***************************************************************************)
EXTENDS Integers, Sequences, FiniteSets, TLC

(***************************************************************************)
(* Python values                                                           *)
(***************************************************************************)
PyNone == [k |-> "null"]

PyBool(b) == [k |-> "bool", b |-> b]

PyNum(n) == [k |-> "num", n |-> n]

\* a float, carried in tenths
PyFloat(tenths) == [k |-> "float", tenths |-> tenths]

PyStr(s) == [k |-> "str", s |-> s]

PyList(items) == [k |-> "list", items |-> items]

PyDict(items) == [k |-> "dict", items |-> items]

\* bool(v): Python truthiness
Truthy(v) ==
    CASE v.k = "null" -> FALSE
      [] v.k = "bool" -> v.b
      [] v.k = "num"  -> v.n # 0
      [] v.k = "float" -> v.tenths # 0
      [] v.k = "str"  -> v.s # ""
      [] OTHER        -> Len(v.items) > 0

IsDict(v) == v.k = "dict"

IsStr(v) == v.k = "str"

\* key in d, for a dict d
HasKey(d, key) == \E i \in 1..Len(d.items) : d.items[i].key = key

\* d[key], for a dict d that has the key
DictGet(d, key) ==
    LET i == CHOOSE i \in 1..Len(d.items) : d.items[i].key = key
    IN  d.items[i].val

\* d.get(key, default)
DictGetDefault(d, key, default) ==
    IF HasKey(d, key) THEN DictGet(d, key) ELSE default

\* d[key] = val: an existing key keeps its place, a new key goes last
DictSet(d, key, val) ==
    IF HasKey(d, key)
    THEN PyDict([i \in 1..Len(d.items) |->
                    IF d.items[i].key = key
                    THEN [key |-> key, val |-> val] ELSE d.items[i]])
    ELSE PyDict(Append(d.items, [key |-> key, val |-> val]))

(***************************************************************************)
(* Characters and strings                                                  *)
(***************************************************************************)
LowerAlpha == "abcdefghijklmnopqrstuvwxyz"

UpperAlpha == "ABCDEFGHIJKLMNOPQRSTUVWXYZ"

DigitChars == "0123456789"

At(s, i) == SubSeq(s, i, i)

\* the place of character c in alphabet, 0 when it is not there
IndexIn(c, alphabet) ==
    IF \E i \in 1..Len(alphabet) : At(alphabet, i) = c
    THEN CHOOSE i \in 1..Len(alphabet) : At(alphabet, i) = c
    ELSE 0

\* the characters of alphabet
CharsOf(alphabet) == {At(alphabet, i) : i \in 1..Len(alphabet)}

LowerChars == CharsOf(LowerAlpha)

UpperChars == CharsOf(UpperAlpha)

IsLower(c) == c \in LowerChars

IsUpper(c) == c \in UpperChars

IsAlpha(c) == IsLower(c) \/ IsUpper(c)

DigitSet == CharsOf(DigitChars)

IsDigit(c) == c \in DigitSet

\* each lower-case letter's upper-case letter
ToUpper == [c \in LowerChars |-> At(UpperAlpha, IndexIn(c, LowerAlpha))]

\* each upper-case letter's lower-case letter
ToLower == [c \in UpperChars |-> At(LowerAlpha, IndexIn(c, UpperAlpha))]

\* \s of the re module, and what str.strip() removes
IsSpace(c) == c \in {" ", "\n", "\t", "\r"}

\* \w of the re module
IsWordChar(c) == IsAlpha(c) \/ IsDigit(c) \/ c = "_"

UpperChar(c) == IF IsLower(c) THEN ToUpper[c] ELSE c

LowerChar(c) == IF IsUpper(c) THEN ToLower[c] ELSE c

RECURSIVE UpperOf(_, _, _)
\* s[a..b] in upper case, the halves one after the other
UpperOf(s, a, b) ==
    IF a > b THEN ""
    ELSE IF a = b THEN UpperChar(At(s, a))
    ELSE UpperOf(s, a, (a + b) \div 2) \o UpperOf(s, (a + b) \div 2 + 1, b)

\* str.upper()
upper(s) == UpperOf(s, 1, Len(s))

RECURSIVE LowerOf(_, _, _)
\* s[a..b] in lower case, the halves one after the other
LowerOf(s, a, b) ==
    IF a > b THEN ""
    ELSE IF a = b THEN LowerChar(At(s, a))
    ELSE LowerOf(s, a, (a + b) \div 2) \o LowerOf(s, (a + b) \div 2 + 1, b)

\* str.lower()
lower(s) == LowerOf(s, 1, Len(s))

\* s starts with t at place i
StartsAt(s, i, t) == i >= 1 /\ i + Len(t) - 1 <= Len(s) /\ SubSeq(s, i, i + Len(t) - 1) = t

\* the first place >= from where t starts in s, 0 when there is none
FindFrom(s, t, from) ==
    IF \E i \in from..(Len(s) - Len(t) + 1) : StartsAt(s, i, t)
    THEN CHOOSE i \in from..(Len(s) - Len(t) + 1) :
            /\ StartsAt(s, i, t)
            /\ \A j \in from..(i - 1) : ~StartsAt(s, j, t)
    ELSE 0

\* t in s
Contains(s, t) == t = "" \/ FindFrom(s, t, 1) > 0

\* the first place >= i of s that holds no whitespace, Len(s) + 1 when none
SkipSpace(s, i) ==
    IF \E j \in i..Len(s) : ~IsSpace(At(s, j))
    THEN CHOOSE j \in i..Len(s) :
            ~IsSpace(At(s, j)) /\ \A m \in i..(j - 1) : IsSpace(At(s, m))
    ELSE Len(s) + 1

\* str.strip()
strip(s) ==
    LET a == SkipSpace(s, 1)
    IN  IF a > Len(s) THEN ""
        ELSE LET b == CHOOSE j \in a..Len(s) :
                        ~IsSpace(At(s, j)) /\ \A m \in (j + 1)..Len(s) : IsSpace(At(s, m))
             IN  SubSeq(s, a, b)

(***************************************************************************)
(* json.loads, for the JSON texts of the model: objects, arrays, strings   *)
(* (with the escapes \" \\ \/ \n \t \r), integers, true, false and null.   *)
(* Fractions, exponents and \u escapes are outside the modelled alphabet.  *)
(***************************************************************************)
JFail == [ok |-> FALSE]

JOk(v, next) == [ok |-> TRUE, val |-> v, next |-> next]

\* the place >= i of the first quote, backslash or control character of s, 0 when
\* there is none
NextSpecial(s, i) ==
    IF \E n \in i..Len(s) : At(s, n) \in {"\"", "\\", "\n", "\t", "\r"}
    THEN CHOOSE n \in i..Len(s) :
            /\ At(s, n) \in {"\"", "\\", "\n", "\t", "\r"}
            /\ \A m \in i..(n - 1) : At(s, m) \notin {"\"", "\\", "\n", "\t", "\r"}
    ELSE 0

\* the character an escape stands for: \" \\ \/ \n \t \r
EscapeOf(e) == IF e = "n" THEN "\n" ELSE IF e = "t" THEN "\t" ELSE IF e = "r" THEN "\r" ELSE e

RECURSIVE ScanFrom(_, _, _, _)
\* the string literal whose opening quote is just before the text acc already read
\* up to place i, j its next quote, backslash or control character: the plain
\* characters before j are taken as a run
ScanFrom(s, i, acc, j) ==
    IF j = 0 THEN JFail
    ELSE IF At(s, j) = "\"" THEN JOk(acc \o SubSeq(s, i, j - 1), j + 1)
    ELSE IF At(s, j) # "\\" \/ j + 1 > Len(s) THEN JFail
    ELSE IF At(s, j + 1) \notin {"\"", "\\", "/", "n", "t", "r"} THEN JFail
    ELSE ScanFrom(s, j + 2, acc \o SubSeq(s, i, j - 1) \o EscapeOf(At(s, j + 1)),
                  NextSpecial(s, j + 2))

\* the string literal whose opening quote is just before place i
ScanString(s, i) == ScanFrom(s, i, "", NextSpecial(s, i))

RECURSIVE DigitsValue(_, _, _)
\* the number written by the digits s[a..b]
DigitsValue(s, a, b) ==
    IF a > b THEN 0
    ELSE 10 * DigitsValue(s, a, b - 1) + (IndexIn(At(s, b), DigitChars) - 1)

\* the last place of the run of digits that starts at place i
DigitsEnd(s, i) ==
    CHOOSE j \in i..Len(s) :
        /\ \A m \in i..j : IsDigit(At(s, m))
        /\ (j = Len(s) \/ ~IsDigit(At(s, j + 1)))

\* -?(0|[1-9]\d*) at place i
ParseNumber(s, i) ==
    LET neg == StartsAt(s, i, "-")
        d   == IF neg THEN i + 1 ELSE i
    IN  IF d > Len(s) \/ ~IsDigit(At(s, d)) THEN JFail
        ELSE LET e == IF At(s, d) = "0" THEN d ELSE DigitsEnd(s, d)
                 n == DigitsValue(s, d, e)
             IN  JOk(PyNum(IF neg THEN 0 - n ELSE n), e + 1)

RECURSIVE ParseValue(_, _)
RECURSIVE ParseMembers(_, _, _)
RECURSIVE ParseElements(_, _, _)

\* after a member of an object: } closes the object acc, a comma brings the next key
MemberNext(s, acc, e) ==
    IF StartsAt(s, e, "}") THEN JOk(acc, e + 1)
    ELSE IF StartsAt(s, e, ",") THEN ParseMembers(s, SkipSpace(s, e + 1), acc)
    ELSE JFail

\* the member whose key is read and whose value v is parsed
MemberEnd(s, acc, key, v) ==
    IF ~v.ok THEN JFail
    ELSE MemberNext(s, DictSet(acc, key.val, v.val), SkipSpace(s, v.next))

\* the member whose key is read, c the place of its colon
MemberValue(s, acc, key, c) ==
    IF ~StartsAt(s, c, ":") THEN JFail
    ELSE MemberEnd(s, acc, key, ParseValue(s, SkipSpace(s, c + 1)))

\* the member whose key is the string literal key
Member(s, acc, key) ==
    IF ~key.ok THEN JFail ELSE MemberValue(s, acc, key, SkipSpace(s, key.next))

\* the members of an object, from the opening quote of a key at place i
ParseMembers(s, i, acc) ==
    IF ~StartsAt(s, i, "\"") THEN JFail ELSE Member(s, acc, ScanString(s, i + 1))

\* after an element of an array: ] closes the array acc, a comma brings the next one
ElementNext(s, acc, e) ==
    IF StartsAt(s, e, "]") THEN JOk(PyList(acc), e + 1)
    ELSE IF StartsAt(s, e, ",") THEN ParseElements(s, SkipSpace(s, e + 1), acc)
    ELSE JFail

\* the element whose value v is parsed
ElementEnd(s, acc, v) ==
    IF ~v.ok THEN JFail ELSE ElementNext(s, Append(acc, v.val), SkipSpace(s, v.next))

\* the elements of an array, from the first character of an element at place i
ParseElements(s, i, acc) == ElementEnd(s, acc, ParseValue(s, i))

\* the string value of the string literal r
StringValue(r) == IF r.ok THEN JOk(PyStr(r.val), r.next) ELSE JFail

\* the JSON value whose first character is at place i
ParseValue(s, i) ==
    IF i > Len(s) THEN JFail
    ELSE CASE At(s, i) = "\""         -> StringValue(ScanString(s, i + 1))
           [] At(s, i) = "{"          ->
                IF StartsAt(s, SkipSpace(s, i + 1), "}")
                THEN JOk(PyDict(<<>>), SkipSpace(s, i + 1) + 1)
                ELSE ParseMembers(s, SkipSpace(s, i + 1), PyDict(<<>>))
           [] At(s, i) = "["          ->
                IF StartsAt(s, SkipSpace(s, i + 1), "]")
                THEN JOk(PyList(<<>>), SkipSpace(s, i + 1) + 1)
                ELSE ParseElements(s, SkipSpace(s, i + 1), <<>>)
           [] StartsAt(s, i, "null")  -> JOk(PyNone, i + 4)
           [] StartsAt(s, i, "true")  -> JOk(PyBool(TRUE), i + 4)
           [] StartsAt(s, i, "false") -> JOk(PyBool(FALSE), i + 5)
           [] At(s, i) = "-" \/ IsDigit(At(s, i)) -> ParseNumber(s, i)
           [] OTHER -> JFail

\* the value r when nothing but whitespace follows it
WholeText(s, r) ==
    IF r.ok /\ SkipSpace(s, r.next) > Len(s) THEN [ok |-> TRUE, val |-> r.val]
    ELSE [ok |-> FALSE]

\* json.loads(s): [ok |-> TRUE, val |-> v], or [ok |-> FALSE] where it raises
json_loads(s) == WholeText(s, ParseValue(s, SkipSpace(s, 1)))

(***************************************************************************)
(* The structured-response parser                                          *)
(***************************************************************************)
\* The backquote cannot be written in a string of this language (its lexer pairs it
\* with the next apostrophe): the texts of the model write ^ for it.
Fence == "^^^"

\* re.search(r"^^^(?:json)?\s*(.*?)^^^", text, re.DOTALL), ^ the backquote: group(1)
FenceMatch(text) ==
    LET open == FindFrom(text, Fence, 1)
        tag  == IF StartsAt(text, open + 3, "json") THEN open + 7 ELSE open + 3
        from == SkipSpace(text, tag)
        shut == FindFrom(text, Fence, from)
    IN  IF open = 0 \/ shut = 0
        THEN [found |-> FALSE]
        ELSE [found |-> TRUE, group |-> SubSeq(text, from, shut - 1)]

\* re.search(r"\{.*\}", text, re.DOTALL): group(), when it matches
BraceMatch(text) ==
    LET open == FindFrom(text, "{", 1)
    IN  IF open = 0 \/ ~\E j \in (open + 1)..Len(text) : At(text, j) = "}"
        THEN [found |-> FALSE]
        ELSE LET shut == CHOOSE j \in (open + 1)..Len(text) :
                            At(text, j) = "}" /\ \A m \in (j + 1)..Len(text) : At(text, m) # "}"
             IN  [found |-> TRUE, group |-> SubSeq(text, open, shut)]

\* ResearchAgent._parse_json
_parse_json(raw) ==
    LET text   == strip(raw)
        direct == json_loads(text)
        fence  == FenceMatch(text)
        fenced == json_loads(strip(fence.group))
        match  == BraceMatch(text)
        braced == json_loads(match.group)
    IN  IF direct.ok THEN direct.val
        ELSE IF fence.found /\ fenced.ok THEN fenced.val
        ELSE IF match.found /\ braced.ok THEN braced.val
        ELSE PyNone

\* CypherGenerator._extract_json
_extract_json(raw) ==
    LET text       == strip(raw)
        direct     == json_loads(text)
        code_block == FenceMatch(text)
        fenced     == json_loads(strip(code_block.group))
        json_match == BraceMatch(text)
        braced     == json_loads(json_match.group)
    IN  IF direct.ok THEN direct.val
        ELSE IF code_block.found /\ fenced.ok THEN fenced.val
        ELSE IF json_match.found /\ braced.ok THEN braced.val
        ELSE PyNone

(***************************************************************************)
(* The safety gate of the query generator                                  *)
(***************************************************************************)
BLOCKED_CYPHER_KEYWORDS ==
    <<"DROP", "DELETE", "DETACH", "REMOVE", "SET", "CREATE", "MERGE">>

\* \b of the re module between places i and i + 1 of s (0 <= i <= Len(s))
WordBoundary(s, i) ==
    LET before == i >= 1 /\ IsWordChar(At(s, i))
        after  == i < Len(s) /\ IsWordChar(At(s, i + 1))
    IN  before # after

\* a search for keyword anywhere in s, inside longer words too
SearchAnywhere(keyword, s) == Contains(s, keyword)

\* re.search(rf"\b{keyword}\b", s) finds a match
SearchWord(keyword, s) ==
    \E i \in 1..(Len(s) - Len(keyword) + 1) :
        /\ StartsAt(s, i, keyword)
        /\ WordBoundary(s, i - 1)
        /\ WordBoundary(s, i + Len(keyword) - 1)

\* a gate that looks for the keywords without folding the case of the query
CaseSensitiveCheck(cypher) ==
    IF \E n \in 1..Len(BLOCKED_CYPHER_KEYWORDS) : SearchWord(BLOCKED_CYPHER_KEYWORDS[n], cypher)
    THEN PyStr("Blocked") ELSE PyNone

\* CypherGenerator._safety_check: the error message, or None for a safe query
_safety_check(cypher) ==
    LET cypher_upper == upper(cypher)
        hits == {n \in 1..Len(BLOCKED_CYPHER_KEYWORDS) :
                    SearchWord(BLOCKED_CYPHER_KEYWORDS[n], cypher_upper)}
    IN  IF hits = {} THEN PyNone
        ELSE LET first == CHOOSE n \in hits : \A m \in hits : n <= m
             IN  PyStr("Blocked: Cypher contains write operation '"
                         \o BLOCKED_CYPHER_KEYWORDS[first] \o "'")

(***************************************************************************)
(* More of Python's strings                                                *)
(***************************************************************************)
RECURSIVE NatStr(_)
\* str(n) for n >= 0
NatStr(n) ==
    IF n < 10 THEN At(DigitChars, n + 1)
    ELSE NatStr(n \div 10) \o At(DigitChars, (n % 10) + 1)

\* str(n) for an int
IntStr(n) == IF n < 0 THEN "-" \o NatStr(0 - n) ELSE NatStr(n)

\* the last place of the run of characters without whitespace that starts at place i
WordEnd(s, i) ==
    CHOOSE j \in i..Len(s) :
        /\ \A m \in i..j : ~IsSpace(At(s, m))
        /\ (j = Len(s) \/ IsSpace(At(s, j + 1)))

RECURSIVE SplitFrom(_, _)
\* the words of s from place i on
SplitFrom(s, i) ==
    LET a == SkipSpace(s, i)
    IN  IF a > Len(s) THEN <<>>
        ELSE LET b == WordEnd(s, a)
             IN  <<SubSeq(s, a, b)>> \o SplitFrom(s, b + 1)

\* str.split()
split(s) == SplitFrom(s, 1)

RECURSIVE join(_, _)
\* sep.join(parts)
join(sep, parts) ==
    IF parts = <<>> THEN ""
    ELSE IF Len(parts) = 1 THEN parts[1]
    ELSE parts[1] \o sep \o join(sep, Tail(parts))

\* seq[:n]
Take(seq, n) == SubSeq(seq, 1, IF Len(seq) < n THEN Len(seq) ELSE n)

RECURSIVE repr(_)
RECURSIVE ReprAll(_)
\* repr of each value of a list
ReprAll(items) ==
    IF items = <<>> THEN <<>> ELSE <<repr(Head(items))>> \o ReprAll(Tail(items))

RECURSIVE ReprPairs(_)
\* repr of each key: value of a dict
ReprPairs(items) ==
    IF items = <<>> THEN <<>>
    ELSE <<"'" \o Head(items).key \o "': " \o repr(Head(items).val)>> \o ReprPairs(Tail(items))

\* repr(v); a float is carried in tenths
repr(v) ==
    CASE v.k = "null"  -> "None"
      [] v.k = "bool"  -> IF v.b THEN "True" ELSE "False"
      [] v.k = "num"   -> IntStr(v.n)
      [] v.k = "float" -> IntStr(v.tenths \div 10) \o "." \o NatStr(v.tenths % 10)
      [] v.k = "str"   -> "'" \o v.s \o "'"
      [] v.k = "list"  -> "[" \o join(", ", ReprAll(v.items)) \o "]"
      [] OTHER         -> "{" \o join(", ", ReprPairs(v.items)) \o "}"

\* str(v), what an f-string writes for {v}
str(v) == IF v.k = "str" THEN v.s ELSE repr(v)

(***************************************************************************)
(* The action planner: ResearchAgent._decide_action                        *)
(***************************************************************************)
\* a loop of one more pass
OneMoreStep == 3 + 1

MAX_STEPS == 3

\* a decision {"thought": .., "tool": .., "args": ..}
Decision(thought, tool, args) ==
    PyDict(<< [key |-> "thought", val |-> PyStr(thought)],
              [key |-> "tool",    val |-> PyStr(tool)],
              [key |-> "args",    val |-> args] >>)

\* any(w in q for w in words)
AnyIn(words, q) == \E n \in 1..Len(words) : Contains(q, words[n])

\* a planner whose count rule does not know the word count
StatisticsWordsWithoutCount == <<"how many", "total", "statistics", "overview">>

StatisticsWords == <<"how many", "total", "count", "statistics", "overview">>

InstitutionWords == <<"iit", "mit", "stanford", "university", "institution", "college">>

\* a name pattern that does not stop at research
StopWordsWithoutResearch == <<"paper", "author">>

StopWords == <<"paper", "author", "research">>

\* [A-Za-z ]
IsNameChar(c) == IsAlpha(c) \/ c = " "

\* (?:\s+(?:paper|author|research)|$) matches at place e of question (lq: its lower case)
NameStops(question, lq, e) ==
    \/ e = Len(question) + 1
    \/ e = Len(question) /\ At(question, e) = "\n"
    \/ /\ e <= Len(question)
       /\ IsSpace(At(question, e))
       /\ \E n \in 1..Len(StopWords) :
             StartsAt(lq, SkipSpace(question, e), StopWords[n])

\* "from ([A-Za-z ]+?)" matches at place i with a group of n characters, and the rest after it
NameMatch(question, lq, i, n) ==
    /\ StartsAt(lq, i, "from ")
    /\ i + 4 + n <= Len(question)
    /\ \A m \in (i + 5)..(i + 4 + n) : IsNameChar(At(question, m))
    /\ NameStops(question, lq, i + 5 + n)

\* re.search(r"from ([A-Za-z ]+?)(?:\s+(?:paper|author|research)|$)", question, re.I):
\* group(1), when it matches
InstitutionMatch(question) ==
    LET lq     == lower(question)
        starts == {i \in 1..Len(question) :
                      /\ StartsAt(lq, i, "from ")
                      /\ \E n \in 1..Len(question) : NameMatch(question, lq, i, n)}
    IN  IF starts = {} THEN [found |-> FALSE]
        ELSE LET i == CHOOSE i \in starts : \A j \in starts : i <= j
                 n == CHOOSE n \in 1..Len(question) :
                        /\ NameMatch(question, lq, i, n)
                        /\ \A m \in 1..(n - 1) : ~NameMatch(question, lq, i, m)
             IN  [found |-> TRUE, group |-> SubSeq(question, i + 5, i + 4 + n)]

\* the rule-based pre-check of step 1: the decision, when a rule decides
RuleDecision(question, step_number) ==
    LET q          == lower(question)
        inst_match == InstitutionMatch(question)
        inst_name  == IF inst_match.found THEN strip(inst_match.group) ELSE "IIT"
    IN  IF step_number = 1 /\ AnyIn(StatisticsWords, q)
        THEN [hit |-> TRUE,
              decision |-> Decision(
                  "Question asks for counts/statistics -- using get_statistics directly.",
                  "get_statistics", PyDict(<<>>))]
        ELSE IF step_number = 1 /\ AnyIn(InstitutionWords, q)
        THEN [hit |-> TRUE,
              decision |-> Decision(
                  "Question asks about an institution -- using institution_search.",
                  "institution_search",
                  PyDict(<<[key |-> "name", val |-> PyStr(inst_name)]>>))]
        ELSE [hit |-> FALSE]

\* the previous step already returned results
EarlyFinish(thought_chain, step_number) ==
    /\ step_number >= 2
    /\ thought_chain # <<>>
    /\ LET last_obs == thought_chain[Len(thought_chain)].observation
       IN  Contains(last_obs, "Found") /\ ~Contains(last_obs, "0 results")

\* a fallback that keeps the words of three characters as well
LongerThanTwo(w) == Len(w) > 2

LongWord(w) == Len(w) > 3

\* the decision taken from the LLM's response raw, with the keyword-search fallback
LLMDecision(question, raw) ==
    LET result == _parse_json(raw)
        words  == SelectSeq(split(question), LongWord)
        query  == IF words # <<>> THEN join(" ", Take(words, 4)) ELSE question
    IN  IF ~Truthy(result)
        THEN Decision("Falling back to keyword search", "keyword_search",
                      PyDict(<<[key |-> "query", val |-> PyStr(query)]>>))
        ELSE result

\* _decide_action consults the LLM
AsksLLM(question, thought_chain, step_number) ==
    /\ ~RuleDecision(question, step_number).hit
    /\ ~EarlyFinish(thought_chain, step_number)

\* _decide_action, with raw the response of the LLM when it is consulted
_decide_action(question, thought_chain, step_number, raw) ==
    IF RuleDecision(question, step_number).hit
    THEN RuleDecision(question, step_number).decision
    ELSE IF EarlyFinish(thought_chain, step_number)
    THEN Decision("I already have sufficient results from the previous step.",
                  "FINISH", PyDict(<<>>))
    ELSE LLMDecision(question, raw)

(***************************************************************************)
(* The graph store: the papers it holds, in the order of the queries'      *)
(* ORDER BY p.citation_count DESC, and the fixed queries of                *)
(* KnowledgeGraphSearch.  A record carries the fields the agent reads      *)
(* (title, year, citations, author).  A call of the store returns          *)
(* [kind |-> "ok", result |-> ..], or [kind |-> "Exception"] when the      *)
(* store is unreachable or refuses the parameter.                          *)
(***************************************************************************)
Paper(title, abstract, year, citations, author, institution, topic) ==
    [title |-> title, abstract |-> abstract, year |-> year, citations |-> citations,
     author |-> author, institution |-> institution, topic |-> topic]

Returned(result) == [kind |-> "ok", result |-> result]

Raised(kind) == [kind |-> kind]

Field(key, val) == [key |-> key, val |-> val]

\* toLower(text) CONTAINS toLower(param), null when text is null
CypherContains(text, param) ==
    text.k = "str" /\ Contains(lower(text.s), lower(param))

RECURSIVE Pick(_, _, _)
\* the papers of store at the positions of keep, from position i onwards, in order
Pick(store, keep, i) ==
    IF i > Len(store) THEN <<>>
    ELSE (IF i \in keep THEN <<store[i]>> ELSE <<>>) \o Pick(store, keep, i + 1)

\* the record of the columns of paper p: each column is returned under its own name
Row(p, columns) ==
    PyDict([n \in 1..Len(columns) |-> Field(columns[n], p[columns[n]])])

\* the rows of the papers of store at the positions of keep, in order
Rows(store, keep, columns) ==
    LET matched == Pick(store, keep, 1)
    IN  [i \in 1..Len(matched) |-> Row(matched[i], columns)]

\* a query that matches param against properties with toLower(): a string matches
\* where a property contains it, null matches nothing, anything else is refused or
\* matches nothing
StringQuery(store, param, fails, properties, columns) ==
    LET keep == {i \in 1..Len(store) :
                    \E property \in properties : CypherContains(store[i][property], param.s)}
    IN  IF fails THEN Raised("Exception")
        ELSE IF param.k = "str" THEN Returned(PyList(Rows(store, keep, columns)))
        ELSE Returned(PyList(<<>>))

\* KnowledgeGraphSearch.search_papers_by_keyword
search_papers_by_keyword(store, keyword, fails) ==
    StringQuery(store, keyword, fails, {"title", "abstract"},
                <<"title", "year", "citations", "abstract">>)

\* KnowledgeGraphSearch.search_by_author
search_by_author(store, author_name, fails) ==
    StringQuery(store, author_name, fails, {"author"},
                <<"author", "title", "year", "citations">>)

\* KnowledgeGraphSearch.search_by_institution
search_by_institution(store, institution_name, fails) ==
    StringQuery(store, institution_name, fails, {"institution"},
                <<"institution", "author", "title", "year", "citations">>)

\* KnowledgeGraphSearch.search_by_topic
search_by_topic(store, topic, fails) ==
    StringQuery(store, topic, fails, {"topic"},
                <<"topic", "title", "year", "citations">>)

\* KnowledgeGraphSearch.get_most_cited_papers
get_most_cited_papers(store, limit, fails) ==
    LET keep == {i \in 1..Len(store) : store[i].citations.k # "null"}
    IN  IF fails THEN Raised("Exception")
        ELSE Returned(PyList(Take(Rows(store, keep, <<"title", "year", "citations">>), limit)))

RECURSIVE CitationSum(_)
CitationSum(store) ==
    IF store = <<>> THEN 0
    ELSE (IF Head(store).citations.k = "num" THEN Head(store).citations.n ELSE 0)
            + CitationSum(Tail(store))

\* the distinct names that the papers of store carry in property
Names(store, property) ==
    {store[i][property].s : i \in {j \in 1..Len(store) : store[j][property].k = "str"}}

\* KnowledgeGraphSearch.get_statistics: one row of counts, {} when the query has no row
get_statistics(store, fails) ==
    LET cited == Cardinality({i \in 1..Len(store) : store[i].citations.k = "num"})
    IN  IF fails THEN Raised("Exception")
        ELSE IF Names(store, "author") = {} \/ Names(store, "topic") = {}
        THEN Returned(PyDict(<<>>))
        ELSE Returned(PyDict(<<
                Field("total_papers", PyNum(Len(store))),
                Field("total_citations", PyNum(CitationSum(store))),
                Field("avg_citations",
                      IF cited = 0 THEN PyNone
                      ELSE PyFloat((10 * CitationSum(store)) \div cited)),
                Field("total_authors", PyNum(Cardinality(Names(store, "author")))),
                Field("total_topics", PyNum(Cardinality(Names(store, "topic")))),
                Field("total_institutions", PyNum(Cardinality(Names(store, "institution")))) >>))

(***************************************************************************)
(* The tools of the registry (ResearchAgent.tools) and how _execute_tool   *)
(* binds arguments to them.  An invocation ends as Returned(result) or as  *)
(* Raised("TypeError") / Raised("Exception"); "Exception" stands for every *)
(* exception that is not a TypeError.                                      *)
(***************************************************************************)
ToolNames ==
    {"keyword_search", "author_search", "institution_search",
     "topic_search", "cypher_search", "get_statistics"}

\* the one parameter of each tool's signature ("" for get_statistics, which has none)
Parameter(tool) ==
    CASE tool = "keyword_search"                               -> "query"
      [] tool \in {"author_search", "institution_search"}      -> "name"
      [] tool = "topic_search"                                 -> "topic"
      [] tool = "cypher_search"                                -> "question"
      [] OTHER                                                 -> ""

\* tool_name not in self.tools raises for an unhashable name
Hashable(v) == v.k \notin {"list", "dict"}

InRegistry(tool_name) == tool_name.k = "str" /\ tool_name.s \in ToolNames

\* an executor that never looks at the values of the mapping
NoValue(tool_args) == [ok |-> TRUE, val |-> PyStr("")]

\* list(tool_args.values())[0] if tool_args else "": ok is FALSE when it raises
FirstValue(tool_args) ==
    IF ~Truthy(tool_args) THEN [ok |-> TRUE, val |-> PyStr("")]
    ELSE IF IsDict(tool_args) THEN [ok |-> TRUE, val |-> tool_args.items[1].val]
    ELSE [ok |-> FALSE]

\* self.tools[tool](**tool_args): which argument the call binds, ok is FALSE
\* when the binding raises TypeError
Bind(tool, tool_args) ==
    LET keys == {tool_args.items[i].key : i \in 1..Len(tool_args.items)}
        par  == Parameter(tool)
    IN  IF ~IsDict(tool_args) THEN [ok |-> FALSE]
        ELSE IF par = "" THEN [ok |-> keys = {}, given |-> FALSE]
        ELSE IF keys = {par} THEN [ok |-> TRUE, given |-> TRUE, val |-> DictGet(tool_args, par)]
        ELSE [ok |-> keys = {} /\ tool = "keyword_search", given |-> FALSE]

\* ResearchAgent._tool_keyword_search; fails1 and fails2 tell whether the first
\* and the second call of the store raise
_tool_keyword_search(store, query, fails1, fails2) ==
    IF ~Truthy(query) THEN get_most_cited_papers(store, 10, fails1)
    ELSE IF ~IsStr(query) THEN Raised("Exception")
    ELSE IF strip(query.s) = "" THEN get_most_cited_papers(store, 10, fails1)
    ELSE LET results == search_papers_by_keyword(store, query, fails1)
         IN  IF results.kind = "ok" /\ ~Truthy(results.result) /\ Len(split(query.s)) > 2
             THEN search_papers_by_keyword(store, PyStr(split(query.s)[1]), fails2)
             ELSE results

\* ResearchAgent._tool_author_search
_tool_author_search(store, name, fails) == search_by_author(store, name, fails)

\* ResearchAgent._tool_institution_search
_tool_institution_search(store, name, fails) == search_by_institution(store, name, fails)

\* ResearchAgent._tool_topic_search
_tool_topic_search(store, topic, fails) == search_by_topic(store, topic, fails)

\* ResearchAgent._tool_get_statistics
_tool_get_statistics(store, fails) == get_statistics(store, fails)

\* question[:60] in the first line of _tool_cypher_search
Sliceable(v) == v.k \in {"str", "list"}

\* the call of a tool other than cypher_search with one argument
CallTool(tool, store, arg, fails1, fails2) ==
    CASE tool = "keyword_search"     -> _tool_keyword_search(store, arg, fails1, fails2)
      [] tool = "author_search"      -> _tool_author_search(store, arg, fails1)
      [] tool = "institution_search" -> _tool_institution_search(store, arg, fails1)
      [] tool = "topic_search"       -> _tool_topic_search(store, arg, fails1)
      [] OTHER                       -> Raised("TypeError")

(***************************************************************************)
(* Observations: ResearchAgent._summarize_observation and                  *)
(* _has_sufficient_results                                                 *)
(***************************************************************************)
IsStatistics(observation) == IsDict(observation) /\ HasKey(observation, "total_papers")

\* round(x or 0, 1)
RoundOrZero(x) == IF Truthy(x) THEN x ELSE PyNum(0)

\* item.get(key, item.get(alt, default))
GetEither(item, key, alt, default) ==
    DictGetDefault(item, key, DictGetDefault(item, alt, default))

\* one line of the summary; ok is FALSE when title[:70] raises
SummaryLine(i, item) ==
    LET title     == GetEither(item, "title", "p.title", PyStr("Unknown"))
        citations == GetEither(item, "citations", "p.citation_count", PyStr("?"))
        year      == GetEither(item, "year", "p.year", PyStr(""))
        author    == DictGetDefault(item, "author", PyStr(""))
        year_str  == IF Truthy(year) THEN " (" \o str(year) \o ")" ELSE ""
        auth_str  == IF Truthy(author) THEN " -- " \o str(author) ELSE ""
        shown     == IF title.k = "str" THEN Take(title.s, 70)
                     ELSE str(PyList(Take(title.items, 70)))
    IN  IF ~IsDict(item) \/ ~Sliceable(title) THEN [ok |-> FALSE]
        ELSE [ok |-> TRUE,
              text |-> "  " \o NatStr(i) \o ". " \o shown \o year_str \o auth_str
                          \o " [" \o str(citations) \o " citations]"]

\* the summary of an observation; ok is FALSE when building it raises
_summarize_observation(observation) ==
    IF IsStatistics(observation)
    THEN [ok |-> TRUE,
          text |-> "Statistics: " \o str(DictGetDefault(observation, "total_papers", PyNum(0)))
                    \o " papers, " \o str(DictGetDefault(observation, "total_authors", PyNum(0)))
                    \o " authors, " \o str(DictGetDefault(observation, "total_topics", PyNum(0)))
                    \o " topics, "
                    \o str(DictGetDefault(observation, "total_institutions", PyNum(0)))
                    \o " institutions, avg citations: "
                    \o str(RoundOrZero(DictGetDefault(observation, "avg_citations", PyNone)))]
    ELSE IF observation.k = "list"
    THEN LET n     == Len(observation.items)
             top   == Take(observation.items, 5)
             lines == [i \in 1..Len(top) |-> SummaryLine(i, top[i])]
             more  == IF n > 5 THEN <<"  ... and " \o NatStr(n - 5) \o " more">> ELSE <<>>
         IN  IF n = 0 THEN [ok |-> TRUE, text |-> "No results found."]
             ELSE IF \E i \in 1..Len(top) : ~lines[i].ok THEN [ok |-> FALSE]
             ELSE [ok |-> TRUE,
                   text |-> join("\n", <<"Found " \o NatStr(n) \o " results:">>
                                          \o [i \in 1..Len(top) |-> lines[i].text] \o more)]
    ELSE [ok |-> TRUE, text |-> Take(str(observation), 300)]

\* stats always sufficient, 3+ papers sufficient
_has_sufficient_results(observation) ==
    \/ IsStatistics(observation)
    \/ observation.k = "list" /\ Len(observation.items) >= 3

(***************************************************************************)
(* The query generator: CypherGenerator.generate_cypher                    *)
(***************************************************************************)
\* not result or "cypher" not in result: "yes", "no", or "raise" when the
\* membership test raises TypeError
LacksCypher(result) ==
    IF ~Truthy(result) THEN "yes"
    ELSE CASE result.k = "dict" -> IF HasKey(result, "cypher") THEN "no" ELSE "yes"
           [] result.k = "str"  -> IF Contains(result.s, "cypher") THEN "no" ELSE "yes"
           [] result.k = "list" ->
                IF \E i \in 1..Len(result.items) : result.items[i] = PyStr("cypher")
                THEN "no" ELSE "yes"
           [] OTHER             -> "raise"

\* {"cypher": None, "explanation": .., "error": ..}
ErrorResult(explanation, error) ==
    PyDict(<<Field("cypher", PyNone), Field("explanation", PyStr(explanation)),
             Field("error", PyStr(error))>>)

\* what the except clause of generate_cypher returns; the text of the exception
\* is not modelled
CaughtResult == ErrorResult("exception", "exception")

\* generate_cypher from its second test of result onwards
Validate(result) ==
    LET lacks  == LacksCypher(result)
        cypher == DictGet(result, "cypher")
        safety_error == _safety_check(cypher.s)
    IN  IF lacks = "raise" THEN CaughtResult
        ELSE IF lacks = "yes"
        THEN ErrorResult("Failed after retry", "JSON parse failed both attempts")
        ELSE IF ~IsDict(result) THEN CaughtResult
        ELSE IF ~IsStr(cypher) THEN CaughtResult
        ELSE IF Truthy(safety_error) THEN ErrorResult(safety_error.s, "unsafe_query")
        ELSE result

(***************************************************************************)
(* The LLM adapters: ResearchAgent._call_llm and                           *)
(* CypherGenerator._call_ollama.  reply is what the one requests.post of a *)
(* call meets: an exception (ConnectionError, Timeout, or another one), or *)
(* a response with a status code and a body; parsed is FALSE when          *)
(* response.json() raises.                                                 *)
(***************************************************************************)
Failed(kind) == [kind |-> kind, status |-> 0, parsed |-> FALSE, body |-> PyNone]

Responded(status, parsed, body) ==
    [kind |-> "response", status |-> status, parsed |-> parsed, body |-> body]

\* response.json()["response"], caught when it raises
ResponseText(reply) ==
    IF reply.parsed /\ IsDict(reply.body) /\ HasKey(reply.body, "response")
    THEN Returned(DictGet(reply.body, "response"))
    ELSE Returned(PyStr(""))

\* an adapter that catches ConnectionError only
CallCatchingConnectionErrorOnly(reply) ==
    IF reply.kind = "ConnectionError" THEN Returned(PyStr(""))
    ELSE IF reply.kind # "response" THEN Raised(reply.kind)
    ELSE IF reply.status = 200 THEN ResponseText(reply)
    ELSE Returned(PyStr(""))

\* ResearchAgent._call_llm
_call_llm(reply) ==
    IF reply.kind = "ConnectionError" THEN Returned(PyStr(""))
    ELSE IF reply.kind # "response" THEN Returned(PyStr(""))
    ELSE IF reply.status = 200 THEN ResponseText(reply)
    ELSE Returned(PyStr(""))

\* CypherGenerator._call_ollama
_call_ollama(reply) ==
    IF reply.kind = "ConnectionError" THEN Returned(PyStr(""))
    ELSE IF reply.kind # "response" THEN Returned(PyStr(""))
    ELSE IF reply.status = 200 THEN ResponseText(reply)
    ELSE Returned(PyStr(""))

(***************************************************************************)
(* The final answer: ResearchAgent._generate_final_answer, text being what *)
(* the LLM answers ("" when the call fails)                                *)
(***************************************************************************)
\* a synthesis that returns the response as the LLM gave it
AnswerUntrimmed(observations, text) ==
    IF observations = <<>>
    THEN "I couldn't find relevant information for your question in the knowledge graph."
    ELSE IF text # "" THEN text
    ELSE "Could not generate an answer from the retrieved data."

_generate_final_answer(observations, text) ==
    IF observations = <<>>
    THEN "I couldn't find relevant information for your question in the knowledge graph."
    ELSE IF text # "" THEN strip(text)
    ELSE "Could not generate an answer from the retrieved data."

\* a success test that looks for the apology as it is written, without lower-casing
SuccessfulCaseSensitive(answer) == answer # "" /\ ~Contains(answer, "couldn't find")

\* bool(answer and "couldn't find" not in answer.lower())
Successful(answer) == answer # "" /\ ~Contains(lower(answer), "couldn't find")

(***************************************************************************)
(* The environment of a run: the questions asked, the papers in the store, *)
(* and the texts the LLM and the store may answer with.                    *)
(***************************************************************************)
Questions ==
    {"how many papers", "papers from IIT Tirupati", "deep graph neural nets"}

SmallStore ==
    <<Paper(PyStr("Deep Graph Nets"), PyStr("graph neural networks"), PyNum(2021), PyNum(90),
            PyStr("Sarah Johnson"), PyStr("IIT Tirupati"), PyStr("Deep Learning")),
      Paper(PyNone, PyStr("attention in graphs"), PyNone, PyNum(50),
            PyStr("Bob Lee"), PyStr("MIT"), PyStr("Graphs"))>>

LargeStore ==
    <<Paper(PyStr("Deep Graph Nets"), PyStr("graph neural networks"), PyNum(2021), PyNum(90),
            PyStr("Sarah Johnson"), PyStr("IIT Tirupati"), PyStr("Deep Learning")),
      Paper(PyStr("Deep Learning Survey"), PyStr("a survey"), PyNum(2019), PyNum(70),
            PyStr("Sarah Johnson"), PyStr("IIT Tirupati"), PyStr("Deep Learning")),
      Paper(PyStr("Graph Attention"), PyStr("attention in graphs"), PyNum(2020), PyNum(50),
            PyStr("Bob Lee"), PyStr("MIT"), PyStr("Graphs")),
      Paper(PyStr("Neural Nets"), PyStr("deep nets"), PyNum(2018), PyNone,
            PyStr("Ann Roy"), PyStr("IIT Tirupati"), PyStr("Deep Learning"))>>

Stores == {SmallStore, LargeStore}

\* what the LLM may answer to the planning prompt ("" when the call fails)
PlannerTexts ==
    {"",
     "42",
     "{\"thought\": \"look it up\"}",
     "{\"tool\": \"lookup\"}",
     "{\"tool\": \"keyword_search\", \"args\": {\"query\": \"graph\"}}",
     "{\"tool\": \"author_search\", \"args\": {\"name\": \"sarah\"}}",
     "{\"tool\": \"topic_search\", \"args\": {\"query\": \"graphs\"}}",
     "{\"tool\": \"get_statistics\", \"args\": {\"scope\": \"all\"}}",
     "{\"tool\": \"web_search\", \"args\": {\"q\": \"attention\"}}",
     "{\"tool\": \"keyword_search\", \"args\": \"graph\"}",
     "{\"tool\": \"cypher_search\", \"args\": {\"question\": \"deep quantum fields\"}}",
     "{\"tool\": \"FINISH\", \"args\": {}}"}

\* what the LLM may answer to a query-generation prompt
CypherTexts ==
    {"",
     "42",
     "{\"explanation\": \"no query\"}",
     "{\"cypher\": \"\"}",
     "{\"cypher\": \"MATCH (p:Paper) RETURN p.title LIMIT 5\", \"explanation\": \"titles\"}",
     "{\"cypher\": \"MATCH (p:Paper) RETURN p.dataset LIMIT 5\"}",
     "{\"cypher\": \"MATCH (n) DETACH DELETE n\"}",
     "{\"cypher\": \"match (n) set n.x = 1 return n\"}"}

\* what execute_query may return for a generated query
QueryAnswers ==
    {PyList(<<>>),
     PyList(<<PyDict(<<Field("p.title", PyStr("Deep Graph Nets"))>>)>>),
     PyList(<<PyDict(<<Field("p.title", PyStr("Deep Graph Nets"))>>),
              PyDict(<<Field("p.title", PyStr("Deep Learning Survey"))>>),
              PyDict(<<Field("p.title", PyNone)>>)>>)}

\* what execute_query may do with a generated query: the store is unreachable, it
\* refuses the query, or it answers
QueryReplies ==
    {Raised("Unreachable"), Raised("Refused")} \cup {Returned(results) : results \in QueryAnswers}

\* what the LLM may answer to the answer prompt ("" when the call fails)
AnswerTexts ==
    {"", "  ", " Deep Graph Nets has 90 citations. ", "I couldn't find any paper.",
     "Sorry, I Couldn't Find it."}

(***************************************************************************)
(* The state of one run of ResearchAgent.run                               *)
(***************************************************************************)
VARIABLES
    question,          \* the question run() was called with
    db,                \* the papers in the graph store
    pc,                \* where the run is
    step,              \* the loop variable of run()
    thought_chain,     \* the steps recorded so far
    all_observations,  \* the observations recorded so far
    tool_name,         \* the tool the current decision names
    tool_args,         \* the arguments the current decision names
    thought,           \* the thought of the current decision
    exec_name,         \* tool_name inside _execute_tool
    exec_args,         \* tool_args inside _execute_tool
    attempt,           \* 1 in the try block of _execute_tool, 2 in its retry
    arg,               \* the question _tool_cypher_search was called with
    cypher,            \* the query generate_cypher returned
    observation,       \* what _execute_tool returned
    result,            \* what run() returned
    invoked,           \* the tool invocations of the current _execute_tool
    caught,            \* the exception that ended the current _execute_tool, if any
    executes,          \* how many times run() has called _execute_tool
    gen_texts,         \* the LLM's answers in the current generate_cypher
    generated,         \* what the last generate_cypher returned
    executed,          \* the queries the current tool passed to execute_query
    fallback,          \* the last fallback search of _tool_cypher_search
    reason,            \* why the loop was left
    llm_calls,         \* the calls of _call_llm so far, by the operation that made them
    mock               \* the stand-in for the LLM and the store: what it has answered

(***************************************************************************)
(* The stand-in for the LLM and the store.  Every response that a run gets *)
(* from outside (the LLM's texts, whether the store fails, what the store  *)
(* returns for a generated query) is drawn from it.  When off it may       *)
(* answer anything; when it records it answers with one of the rehearsed   *)
(* responses and keeps, in script, the responses it gave in their order;   *)
(* when it replays it answers with the next response of tape and with      *)
(* nothing else.  previous is how the recorded run ended.                  *)
(***************************************************************************)
MockOff ==
    [mode |-> "off", script |-> <<>>, tape |-> <<>>,
     previous |-> [pc |-> "none", result |-> PyNone]]

\* the responses of each kind that are recorded: for the planner a search, a tool
\* called with a parameter it does not take, the graph query, FINISH and a number;
\* a store that answers the tools and answers or fails in the fallback search; a
\* query text or none; a refused or an answered query; an answer text, blanks or none
Rehearsed(kind) ==
    CASE kind = "plan"   -> {"{\"tool\": \"keyword_search\", \"args\": {\"query\": \"graph\"}}",
                             "{\"tool\": \"get_statistics\", \"args\": {\"scope\": \"all\"}}",
                             "{\"tool\": \"cypher_search\", \"args\": {\"question\": \"deep quantum fields\"}}",
                             "{\"tool\": \"FINISH\", \"args\": {}}",
                             "42"}
      [] kind = "store"  -> {<<FALSE, FALSE>>}
      [] kind = "cypher" -> {"", "{\"cypher\": \"MATCH (p:Paper) RETURN p.title LIMIT 5\", \"explanation\": \"titles\"}"}
      [] kind = "query"  -> {Raised("Refused"), Returned(PyList(<<>>))}
      [] kind = "search" -> BOOLEAN
      [] kind = "answer" -> {"", "  ", " Deep Graph Nets has 90 citations. "}

\* the responses the stand-in may give to a request of kind, out of the possible ones
Offered(kind, possible) ==
    IF mock.mode = "off" THEN possible
    ELSE IF mock.mode = "record" THEN possible \cap Rehearsed(kind)
    ELSE IF mock.tape # <<>> /\ Head(mock.tape).kind = kind
    THEN {Head(mock.tape).response} \cap possible
    ELSE {}

\* the stand-in after it gave response to a request of kind
Responded_with(kind, response) ==
    IF mock.mode = "off" THEN mock
    ELSE IF mock.mode = "record"
    THEN [mock EXCEPT !.script = Append(@, [kind |-> kind, response |-> response])]
    ELSE [mock EXCEPT !.tape = Tail(@)]

vars ==
    <<question, db, pc, step, thought_chain, all_observations, tool_name, tool_args,
      thought, exec_name, exec_args, attempt, arg, cypher, observation, result,
      invoked, caught, executes, gen_texts, generated, executed, fallback, reason,
      llm_calls, mock>>

loop_vars == <<step, thought_chain, all_observations, tool_name, tool_args, thought>>

exec_vars == <<exec_name, exec_args, attempt, invoked, caught, executes>>

cypher_vars == <<arg, cypher, gen_texts, generated, executed, fallback>>

Init ==
    /\ question \in Questions
    /\ db \in Stores
    /\ pc = "plan"
    /\ step = 0
    /\ thought_chain = <<>>
    /\ all_observations = <<>>
    /\ tool_name = PyNone
    /\ tool_args = PyNone
    /\ thought = PyNone
    /\ exec_name = PyNone
    /\ exec_args = PyNone
    /\ attempt = 1
    /\ arg = PyNone
    /\ cypher = PyNone
    /\ observation = PyNone
    /\ result = PyNone
    /\ invoked = <<>>
    /\ caught = "none"
    /\ executes = 0
    /\ gen_texts = <<>>
    /\ generated = PyNone
    /\ executed = <<>>
    /\ fallback = PyNone
    /\ reason = "running"
    /\ llm_calls = <<>>
    /\ mock = MockOff

(***************************************************************************)
(* ResearchAgent.run: one pass of the loop is a decision (DecideByRule or  *)
(* DecideByLLM), the execution of the tool (ExecuteTool, RetryTool and,    *)
(* for cypher_search, GenerateCypher .. FallbackSearch) and the recording  *)
(* of the observation (RecordStep).                                        *)
(***************************************************************************)
\* lines 157-176 of run(): read the decision, leave on FINISH
Act(action_decision) ==
    IF ~IsDict(action_decision)
    THEN /\ pc' = "raised"
         /\ UNCHANGED <<tool_name, tool_args, thought, reason>>
    ELSE /\ tool_name' = DictGetDefault(action_decision, "tool", PyStr("keyword_search"))
         /\ tool_args' = DictGetDefault(action_decision, "args", PyDict(<<>>))
         /\ thought'   = DictGetDefault(action_decision, "thought", PyStr(""))
         /\ IF tool_name' = PyStr("FINISH")
            THEN pc' = "finish" /\ reason' = "FINISH"
            ELSE pc' = "execute" /\ UNCHANGED reason

\* _decide_action settles the decision without the LLM
DecideByRule ==
    /\ pc = "plan"
    /\ ~AsksLLM(question, thought_chain, step + 1)
    /\ Act(_decide_action(question, thought_chain, step + 1, ""))
    /\ UNCHANGED <<question, db, mock, llm_calls, step, thought_chain, all_observations, observation, result>>
    /\ UNCHANGED <<exec_vars, cypher_vars>>

\* _decide_action asks the LLM, which answers raw
DecideByLLM ==
    /\ pc = "plan"
    /\ AsksLLM(question, thought_chain, step + 1)
    /\ llm_calls' = Append(llm_calls, "plan")
    /\ \E raw \in Offered("plan", PlannerTexts) :
          /\ Act(_decide_action(question, thought_chain, step + 1, raw))
          /\ mock' = Responded_with("plan", raw)
    /\ UNCHANGED <<question, db, step, thought_chain, all_observations, observation, result>>
    /\ UNCHANGED <<exec_vars, cypher_vars>>

\* one invocation of a tool by _execute_tool: with the mapping passed as keywords,
\* or with the one value passed positionally
Invocation(tool, style, passed) == [tool |-> tool, style |-> style, passed |-> passed]

\* an executor that returns what it last observed when the tool raises
SettleWithStaleObservation(outcome, try) ==
    IF outcome.kind = "ok"
    THEN observation' = outcome.result /\ pc' = "observe" /\ caught' = "none"
    ELSE IF outcome.kind = "TypeError" /\ try = 1
    THEN pc' = "retry" /\ UNCHANGED <<observation, caught>>
    ELSE pc' = "observe" /\ caught' = outcome.kind /\ UNCHANGED observation

\* an executor that retries after every TypeError, also after that of the retry
SettleRetryingAgain(outcome, try) ==
    IF outcome.kind = "ok"
    THEN observation' = outcome.result /\ pc' = "observe" /\ caught' = "none"
    ELSE IF outcome.kind = "TypeError"
    THEN pc' = "retry" /\ UNCHANGED <<observation, caught>>
    ELSE observation' = PyList(<<>>) /\ pc' = "observe" /\ caught' = outcome.kind

\* how _execute_tool goes on after an invocation that ended as outcome
Settle(outcome, try) ==
    IF outcome.kind = "ok"
    THEN observation' = outcome.result /\ pc' = "observe" /\ caught' = "none"
    ELSE IF outcome.kind = "TypeError" /\ try = 1
    THEN pc' = "retry" /\ UNCHANGED <<observation, caught>>
    ELSE observation' = PyList(<<>>) /\ pc' = "observe" /\ caught' = outcome.kind

\* the call of a registered tool with the argument val (absent when ~given):
\* cypher_search starts its query generation, the other tools run to their end
Invoke(tool, style, passed, given, val, try, fails1, fails2) ==
    LET outcome == IF tool = "get_statistics"
                   THEN (IF given THEN Raised("TypeError")
                         ELSE _tool_get_statistics(db, fails1))
                   ELSE IF tool = "cypher_search" THEN Raised("TypeError")
                   ELSE CallTool(tool, db, IF given THEN val ELSE PyStr(""), fails1, fails2)
    IN  IF tool = "cypher_search" /\ Sliceable(val)
        THEN /\ pc' = "generate"
             /\ arg' = val
             /\ gen_texts' = <<>>
             /\ invoked' = Append(IF try = 1 THEN <<>> ELSE invoked,
                                  Invocation(tool, style, passed))
             /\ UNCHANGED <<observation, caught, cypher, generated, executed, fallback>>
        ELSE /\ Settle(outcome, try)
             /\ invoked' = Append(IF try = 1 THEN <<>> ELSE invoked,
                                  Invocation(tool, style, passed))
             /\ UNCHANGED cypher_vars

\* the try block of _execute_tool
ExecuteTool ==
    /\ pc = "execute"
    /\ executes' = executes + 1
    /\ attempt' = 1
    /\ \E fails \in Offered("store", BOOLEAN \X BOOLEAN) :
          LET unknown == Hashable(tool_name) /\ ~InRegistry(tool_name)
              first   == FirstValue(tool_args)
              name    == IF unknown THEN PyStr("keyword_search") ELSE tool_name
              args    == IF unknown /\ first.ok
                         THEN PyDict(<<Field("query", first.val)>>) ELSE tool_args
              bound   == Bind(name.s, args)
          IN  /\ mock' = Responded_with("store", fails)
              /\ exec_name' = name
              /\ exec_args' = args
              /\ IF ~Hashable(tool_name)
                 THEN /\ pc' = "retry"
                      /\ invoked' = <<>>
                      /\ UNCHANGED <<observation, caught, cypher_vars>>
                 ELSE IF unknown /\ ~first.ok
                 THEN /\ Settle(Raised("Exception"), 1)
                      /\ invoked' = <<>>
                      /\ UNCHANGED cypher_vars
                 ELSE IF ~bound.ok
                 THEN /\ pc' = "retry"
                      /\ invoked' = <<Invocation(name.s, "keywords", args)>>
                      /\ UNCHANGED <<observation, caught, cypher_vars>>
                 ELSE Invoke(name.s, "keywords", args, bound.given,
                             IF bound.given THEN bound.val ELSE PyNone, 1, fails[1], fails[2])
    /\ UNCHANGED <<question, db, llm_calls, result, reason, loop_vars>>

\* the except TypeError block of _execute_tool: once more, with the first value
RetryTool ==
    /\ pc = "retry"
    /\ attempt' = 2
    /\ \E fails \in Offered("store", BOOLEAN \X BOOLEAN) :
          LET first == FirstValue(exec_args)
          IN  /\ mock' = Responded_with("store", fails)
              /\ IF ~first.ok \/ ~InRegistry(exec_name)
                 THEN /\ Settle(Raised("Exception"), 2)
                      /\ UNCHANGED <<invoked, cypher_vars>>
                 ELSE Invoke(exec_name.s, "positional", first.val, TRUE, first.val, 2,
                             fails[1], fails[2])
    /\ UNCHANGED <<question, db, llm_calls, result, reason, loop_vars, exec_name, exec_args, executes>>

\* _tool_cypher_search after generate_cypher returned cypher_result
Generated(cypher_result) ==
    /\ generated' = cypher_result
    /\ IF ~Truthy(DictGet(cypher_result, "cypher"))
       THEN pc' = "fallback" /\ UNCHANGED cypher
       ELSE pc' = "query" /\ cypher' = DictGet(cypher_result, "cypher")

\* generate_cypher up to its first test of result: the LLM answers raw
GenerateCypher ==
    /\ pc = "generate"
    /\ llm_calls' = Append(llm_calls, "cypher")
    /\ \E raw \in Offered("cypher", CypherTexts) :
          /\ mock' = Responded_with("cypher", raw)
          /\ gen_texts' = <<raw>>
          /\ IF LacksCypher(_extract_json(raw)) = "yes"
             THEN pc' = "regenerate" /\ UNCHANGED <<generated, cypher>>
             ELSE Generated(Validate(_extract_json(raw)))
    /\ UNCHANGED <<question, db, result, reason, observation, loop_vars, exec_vars>>
    /\ UNCHANGED <<arg, executed, fallback>>

\* the retry of generate_cypher with the simpler prompt: the LLM answers raw
RegenerateCypher ==
    /\ pc = "regenerate"
    /\ llm_calls' = Append(llm_calls, "cypher")
    /\ \E raw \in Offered("cypher", CypherTexts) :
          /\ mock' = Responded_with("cypher", raw)
          /\ gen_texts' = Append(gen_texts, raw)
          /\ Generated(Validate(_extract_json(raw)))
    /\ UNCHANGED <<question, db, result, reason, observation, loop_vars, exec_vars>>
    /\ UNCHANGED <<arg, executed, fallback>>

\* the try block of _tool_cypher_search: the store is unreachable, or it takes
\* the query and refuses it, or it takes the query and answers
ExecuteQuery ==
    /\ pc = "query"
    /\ \E reply \in Offered("query", QueryReplies) :
          /\ mock' = Responded_with("query", reply)
          /\ IF reply = Raised("Unreachable")
             THEN /\ pc' = "fallback"
                  /\ UNCHANGED <<executed, observation, caught>>
             ELSE IF reply = Raised("Refused")
             THEN /\ executed' = Append(executed, cypher.s)
                  /\ pc' = "fallback"
                  /\ UNCHANGED <<observation, caught>>
             ELSE /\ executed' = Append(executed, cypher.s)
                  /\ Settle(reply, attempt)
    /\ UNCHANGED <<question, db, llm_calls, result, reason, loop_vars>>
    /\ UNCHANGED <<exec_name, exec_args, attempt, invoked, executes>>
    /\ UNCHANGED <<arg, cypher, gen_texts, generated, fallback>>

\* a fallback that goes through the registered keyword-search tool
FallbackByTool ==
    /\ pc = "fallback"
    /\ \E fails \in Offered("store", BOOLEAN \X BOOLEAN) :
          /\ mock' = Responded_with("store", fails)
          /\ fallback' = [question |-> arg, fails |-> fails[1],
                          outcome |-> _tool_keyword_search(db, arg, fails[1], fails[2])]
          /\ Settle(_tool_keyword_search(db, arg, fails[1], fails[2]), attempt)
    /\ UNCHANGED <<question, db, llm_calls, result, reason, loop_vars>>
    /\ UNCHANGED <<exec_name, exec_args, attempt, invoked, executes>>
    /\ UNCHANGED <<arg, cypher, gen_texts, generated, executed>>

\* the fallback of _tool_cypher_search: the store's keyword search with the question
FallbackSearch ==
    /\ pc = "fallback"
    /\ \E fails \in Offered("search", BOOLEAN) :
          /\ mock' = Responded_with("search", fails)
          /\ fallback' = [question |-> arg, fails |-> fails,
                          outcome |-> search_papers_by_keyword(db, arg, fails)]
          /\ Settle(search_papers_by_keyword(db, arg, fails), attempt)
    /\ UNCHANGED <<question, db, llm_calls, result, reason, loop_vars>>
    /\ UNCHANGED <<exec_name, exec_args, attempt, invoked, executes>>
    /\ UNCHANGED <<arg, cypher, gen_texts, generated, executed>>

\* a Step that carries the loop variable as its index
StepCountedFromZero(n, obs_summary) ==
    [step |-> n - 1, thought |-> thought, action |-> tool_name, args |-> tool_args,
     observation |-> obs_summary, raw_results |-> observation]

\* one entry of thought_chain
Step(n, obs_summary) ==
    [step |-> n, thought |-> thought, action |-> tool_name, args |-> tool_args,
     observation |-> obs_summary, raw_results |-> observation]

\* one entry of all_observations
Observation(obs_summary) ==
    [tool |-> tool_name, args |-> tool_args, results |-> observation,
     summary |-> obs_summary]

\* _execute_tool has returned: its locals and those of the tool it called are gone
Returned_from_execute_tool ==
    /\ exec_name' = PyNone
    /\ exec_args' = PyNone
    /\ attempt' = 1
    /\ invoked' = <<>>
    /\ caught' = "none"
    /\ arg' = PyNone
    /\ cypher' = PyNone
    /\ gen_texts' = <<>>
    /\ generated' = PyNone
    /\ executed' = <<>>
    /\ fallback' = PyNone

\* a loop that leaves on sufficient results after its first step as well
RecordStepStoppingAtOnce ==
    /\ pc = "observe"
    /\ LET obs_summary == _summarize_observation(observation)
       IN  IF ~obs_summary.ok
           THEN /\ pc' = "raised"
                /\ UNCHANGED <<step, thought_chain, all_observations, reason>>
           ELSE /\ thought_chain' = Append(thought_chain, Step(step + 1, obs_summary.text))
                /\ all_observations' = Append(all_observations, Observation(obs_summary.text))
                /\ IF _has_sufficient_results(observation)
                   THEN pc' = "answer" /\ reason' = "sufficient" /\ UNCHANGED step
                   ELSE IF step + 1 = MAX_STEPS
                   THEN pc' = "answer" /\ reason' = "MAX_STEPS" /\ step' = step + 1
                   ELSE pc' = "plan" /\ step' = step + 1 /\ UNCHANGED reason
    /\ Returned_from_execute_tool
    /\ UNCHANGED <<question, db, mock, llm_calls, tool_name, tool_args, thought, observation, result, executes>>

\* lines 180-204 of run(): summarise and record the observation, then leave the
\* loop or go round again
RecordStep ==
    /\ pc = "observe"
    /\ LET obs_summary == _summarize_observation(observation)
       IN  IF ~obs_summary.ok
           THEN /\ pc' = "raised"
                /\ UNCHANGED <<step, thought_chain, all_observations, reason>>
           ELSE /\ thought_chain' = Append(thought_chain, Step(step + 1, obs_summary.text))
                /\ all_observations' = Append(all_observations, Observation(obs_summary.text))
                /\ IF _has_sufficient_results(observation) /\ step >= 1
                   THEN pc' = "answer" /\ reason' = "sufficient" /\ UNCHANGED step
                   ELSE IF step + 1 = MAX_STEPS
                   THEN pc' = "answer" /\ reason' = "MAX_STEPS" /\ step' = step + 1
                   ELSE pc' = "plan" /\ step' = step + 1 /\ UNCHANGED reason
    /\ Returned_from_execute_tool
    /\ UNCHANGED <<question, db, mock, llm_calls, tool_name, tool_args, thought, observation, result, executes>>

\* what run() returns
AgentResult(answer, steps_taken, success) ==
    [question |-> question, answer |-> answer, thought_chain |-> thought_chain,
     steps_taken |-> steps_taken, success |-> success]

\* a FINISH branch that judges success by the answer, as the branch after the loop does
FinishJudgedByAnswer ==
    /\ pc = "finish"
    /\ llm_calls' = IF all_observations = <<>> THEN llm_calls ELSE Append(llm_calls, "answer")
    /\ \E text \in Offered("answer", IF all_observations = <<>> THEN {""} ELSE AnswerTexts) :
          LET answer == _generate_final_answer(all_observations, text)
          IN  /\ result' = AgentResult(answer, step, Successful(answer))
              /\ mock' = Responded_with("answer", text)
    /\ pc' = "done"
    /\ UNCHANGED <<question, db, observation, reason, loop_vars, exec_vars, cypher_vars>>

\* a FINISH branch that reports the number of the step it decided in
FinishCountingThisStep ==
    /\ pc = "finish"
    /\ llm_calls' = IF all_observations = <<>> THEN llm_calls ELSE Append(llm_calls, "answer")
    /\ \E text \in Offered("answer", IF all_observations = <<>> THEN {""} ELSE AnswerTexts) :
          /\ result' = AgentResult(_generate_final_answer(all_observations, text), step + 1, TRUE)
          /\ mock' = Responded_with("answer", text)
    /\ pc' = "done"
    /\ UNCHANGED <<question, db, observation, reason, loop_vars, exec_vars, cypher_vars>>

\* lines 165-176 of run(): the answer after a FINISH decision
Finish ==
    /\ pc = "finish"
    /\ llm_calls' = IF all_observations = <<>> THEN llm_calls ELSE Append(llm_calls, "answer")
    /\ \E text \in Offered("answer", IF all_observations = <<>> THEN {""} ELSE AnswerTexts) :
          /\ result' = AgentResult(_generate_final_answer(all_observations, text), step, TRUE)
          /\ mock' = Responded_with("answer", text)
    /\ pc' = "done"
    /\ UNCHANGED <<question, db, observation, reason, loop_vars, exec_vars, cypher_vars>>

\* lines 206-219 of run(): the answer after the loop
Answer ==
    /\ pc = "answer"
    /\ llm_calls' = IF all_observations = <<>> THEN llm_calls ELSE Append(llm_calls, "answer")
    /\ \E text \in Offered("answer", IF all_observations = <<>> THEN {""} ELSE AnswerTexts) :
          LET answer == _generate_final_answer(all_observations, text)
          IN  /\ result' = AgentResult(answer, Len(thought_chain), Successful(answer))
              /\ mock' = Responded_with("answer", text)
    /\ pc' = "done"
    /\ UNCHANGED <<question, db, observation, reason, loop_vars, exec_vars, cypher_vars>>

Next ==
    \/ DecideByRule
    \/ DecideByLLM
    \/ ExecuteTool
    \/ RetryTool
    \/ GenerateCypher
    \/ RegenerateCypher
    \/ ExecuteQuery
    \/ FallbackSearch
    \/ RecordStep
    \/ Finish
    \/ Answer

Spec == Init /\ [][Next]_vars

(***************************************************************************)
(* Two runs on one agent: run() is called, its responses are recorded, and *)
(* when it has ended run() is called again with the same question on the   *)
(* same ResearchAgent, and gets the recorded responses in their order.     *)
(* ResearchAgent.__init__ sets searcher, cypher_generator, config and      *)
(* tools; run() and what it calls assign no attribute of the agent, so a   *)
(* second call starts from the agent as it was constructed and from the    *)
(* locals that run() initialises.                                          *)
(***************************************************************************)
RerunInit ==
    /\ question = "deep graph neural nets"
    /\ db \in Stores
    /\ pc = "plan"
    /\ step = 0
    /\ thought_chain = <<>>
    /\ all_observations = <<>>
    /\ tool_name = PyNone
    /\ tool_args = PyNone
    /\ thought = PyNone
    /\ exec_name = PyNone
    /\ exec_args = PyNone
    /\ attempt = 1
    /\ arg = PyNone
    /\ cypher = PyNone
    /\ observation = PyNone
    /\ result = PyNone
    /\ invoked = <<>>
    /\ caught = "none"
    /\ executes = 0
    /\ gen_texts = <<>>
    /\ generated = PyNone
    /\ executed = <<>>
    /\ fallback = PyNone
    /\ reason = "running"
    /\ llm_calls = <<>>
    /\ mock = [MockOff EXCEPT !.mode = "record"]

\* the locals of a call of run() that has not started its loop
FreshLocals ==
    /\ pc' = "plan"
    /\ step' = 0
    /\ tool_name' = PyNone
    /\ tool_args' = PyNone
    /\ thought' = PyNone
    /\ exec_name' = PyNone
    /\ exec_args' = PyNone
    /\ attempt' = 1
    /\ arg' = PyNone
    /\ cypher' = PyNone
    /\ observation' = PyNone
    /\ result' = PyNone
    /\ invoked' = <<>>
    /\ caught' = "none"
    /\ executes' = 0
    /\ gen_texts' = <<>>
    /\ generated' = PyNone
    /\ executed' = <<>>
    /\ fallback' = PyNone
    /\ reason' = "running"
    /\ llm_calls' = <<>>

\* an agent that keeps its thought chain between the calls of run()
RunAgainWithTheOldChain ==
    /\ pc \in {"done", "raised"}
    /\ mock.mode = "record"
    /\ mock' = [mode |-> "replay", script |-> mock.script, tape |-> mock.script,
                previous |-> [pc |-> pc, result |-> result]]
    /\ all_observations' = <<>>
    /\ FreshLocals
    /\ UNCHANGED <<question, db, thought_chain>>

\* run() is called once more on the same agent with the same question: lines
\* 143-145 of run() start the chain and the observations anew
RunAgain ==
    /\ pc \in {"done", "raised"}
    /\ mock.mode = "record"
    /\ mock' = [mode |-> "replay", script |-> mock.script, tape |-> mock.script,
                previous |-> [pc |-> pc, result |-> result]]
    /\ thought_chain' = <<>>
    /\ all_observations' = <<>>
    /\ FreshLocals
    /\ UNCHANGED <<question, db>>

RerunNext ==
    \/ Next
    \/ RunAgain

RerunSpec == RerunInit /\ [][RerunNext]_vars

(***************************************************************************)
(* The safety gate on its own: _safety_check applied to the queries made   *)
(* of up to MaxWords of SafetyWords, written with or without a space       *)
(* between them.                                                           *)
(***************************************************************************)
MaxWords == 2

SafetyWords ==
    {"MATCH", "(n)", "RETURN", "WHERE", "ORDER BY", "LIMIT",
     "DROP", "DELETE", "DETACH", "REMOVE", "SET", "CREATE", "MERGE",
     "delete", "Merge", "n.set", "dataset", "CREATED", "x_DROP", "9remove"}

Separators == {" ", ""}

RECURSIVE Phrases(_)
\* the queries of at most n words
Phrases(n) ==
    IF n = 0 THEN {""}
    ELSE Phrases(n - 1)
            \cup {p \o sep \o w : p \in Phrases(n - 1) \ {""}, sep \in Separators, w \in SafetyWords}
            \cup SafetyWords

SafetyQueries == Phrases(MaxWords)

SafetyInit ==
    /\ question = ""
    /\ db = <<>>
    /\ pc = "safety"
    /\ step = 0
    /\ thought_chain = <<>>
    /\ all_observations = <<>>
    /\ tool_name = PyNone
    /\ tool_args = PyNone
    /\ thought = PyNone
    /\ exec_name = PyNone
    /\ exec_args = PyNone
    /\ attempt = 1
    /\ arg = PyNone
    /\ cypher \in {PyStr(q) : q \in SafetyQueries}
    /\ observation = PyNone
    /\ result = PyNone
    /\ invoked = <<>>
    /\ caught = "none"
    /\ executes = 0
    /\ gen_texts = <<>>
    /\ generated = PyNone
    /\ executed = <<>>
    /\ fallback = PyNone
    /\ reason = "running"
    /\ llm_calls = <<>>
    /\ mock = MockOff

\* safety_error = self._safety_check(cypher)
CheckSafety ==
    /\ pc = "safety"
    /\ generated' = _safety_check(cypher.s)
    /\ pc' = "checked"
    /\ UNCHANGED <<question, db, mock, llm_calls, observation, result, reason, loop_vars, exec_vars>>
    /\ UNCHANGED <<arg, cypher, gen_texts, executed, fallback>>

SafetyNext == CheckSafety

SafetySpec == SafetyInit /\ [][SafetyNext]_vars

(***************************************************************************)
(* The planner, the structured-response parsers and the answer synthesis   *)
(* on their own: each is applied once to inputs drawn from the catalogues  *)
(* below.  question, step (the step number) and thought_chain are the      *)
(* planner's inputs, all_observations the synthesis's, arg the text the    *)
(* LLM answers or the parser is given; tool_args is the record the         *)
(* parser's text was written around and reason how it was wrapped.         *)
(* result is what the function returned.  For the LLM adapters arg is what *)
(* the request meets and executes counts the requests made.                *)
(***************************************************************************)
PlannerQuestions ==
    Questions \cup {"Total citations", "an account of graphs", "STATISTICS",
                    "Overview of MIT papers", "attention",
                    "work from Stanford University research group",
                    "Papers FROM mit", "best college authors",
                    "how many papers from MIT",
                    "what are the best deep graph neural network papers",
                    "who is he"}

\* a list of n records as the store returns them
RecordList(n) ==
    PyList([i \in 1..n |-> PyDict(<<Field("title", PyStr("Paper " \o NatStr(i))),
                                    Field("citations", PyNum(i))>>)])

\* the entry run() records for a keyword search at step n that returned results
Recorded(n, results) ==
    [step |-> n, thought |-> PyStr(""), action |-> PyStr("keyword_search"),
     args |-> PyDict(<<Field("query", PyStr("graph"))>>),
     observation |-> _summarize_observation(results).text, raw_results |-> results]

\* the thought chains run() can hold when it asks for the decision of step_number:
\* one entry per earlier step, none of them sufficient after the first step
Chains(step_number) ==
    CASE step_number = 1 -> {<<>>}
      [] step_number = 2 -> {<<Recorded(1, RecordList(n))>> : n \in {0, 1, 5, 10, 20}}
      [] OTHER -> {<<Recorded(1, RecordList(0)), Recorded(2, RecordList(n))>> : n \in {0, 1, 2}}

\* records and the JSON text of each
RecordTexts ==
    {<<"{\"tool\": \"FINISH\"}", PyDict(<<Field("tool", PyStr("FINISH"))>>)>>,
     <<"{\"cypher\": \"MATCH (n) RETURN n\", \"args\": {\"k\": 1}}",
       PyDict(<<Field("cypher", PyStr("MATCH (n) RETURN n")),
                Field("args", PyDict(<<Field("k", PyNum(1))>>))>>)>>,
     <<"{}", PyDict(<<>>)>>}

\* the text of a record as the LLM may wrap it
Wrapped(text, how) ==
    CASE how = "bare"     -> text
      [] how = "padded"   -> "  " \o text \o "\n"
      [] how = "fenced"   -> Fence \o "\n" \o text \o "\n" \o Fence
      [] how = "tagged"   -> "Here it is:\n" \o Fence \o "json\n" \o text \o Fence \o " Bye."
      [] how = "prose"    -> "Sure, the answer is " \o text \o " as asked."
      [] how = "braces"   -> "Use the {tool} format: " \o text
      [] how = "trailing" -> text \o " (schema: {tool, args})"

\* texts that hold no record
OtherTexts ==
    {"", "   ", "no record here", "{\"tool\": \"FINISH\"", "{tool: FINISH}", "42", "0",
     "\"done\"", "true", "null", "[1, 2]", Fence \o "json\n42\n" \o Fence,
     "The count is " \o Fence \o "[1]" \o Fence}

\* the most papers a store of the search cases holds
MaxPapers == 11

\* the limit of the one query that has a LIMIT: get_most_cited_papers(10)
MostCited == 10

RECURSIVE StoreOf(_)
\* a store of n papers on graphs from one institution, most cited first
StoreOf(n) ==
    IF n = 0 THEN <<>>
    ELSE <<Paper(PyStr("Graph Paper"), PyStr("a study of graphs"), PyNum(2020),
                 PyNum(10 * n), PyStr("Sarah Johnson"), PyStr("IIT Tirupati"),
                 PyStr("Graphs"))>> \o StoreOf(n - 1)

\* the tools that search the store with one string
SearchTools == {"keyword_search", "author_search", "institution_search", "topic_search"}

\* what a request to the LLM server may meet
LLMReplies ==
    {Failed("ConnectionError"), Failed("Timeout"), Failed("Exception"),
     Responded(200, TRUE, PyDict(<<Field("response", PyStr("{\"tool\": \"FINISH\"}"))>>)),
     Responded(200, TRUE, PyDict(<<Field("response", PyStr(""))>>)),
     Responded(200, TRUE, PyDict(<<Field("error", PyStr("model not found"))>>)),
     Responded(200, TRUE, PyList(<<>>)),
     Responded(200, FALSE, PyNone),
     Responded(404, TRUE, PyDict(<<Field("error", PyStr("model not found"))>>)),
     Responded(500, FALSE, PyNone),
     Responded(503, TRUE, PyDict(<<Field("response", PyStr("busy"))>>))}

FunctionInit ==
    /\ pc \in {"decide", "parse", "extract", "synthesize", "call_llm", "call_ollama",
              "search"}
    /\ db \in IF pc = "search" THEN {StoreOf(n) : n \in 0..MaxPapers} ELSE {<<>>}
    /\ question \in IF pc = "decide" THEN PlannerQuestions ELSE {""}
    /\ step \in IF pc = "decide" THEN 1..MAX_STEPS ELSE {0}
    /\ thought_chain \in IF pc = "decide" THEN Chains(step) ELSE {<<>>}
    /\ all_observations \in
          IF pc = "synthesize"
          THEN {<<>>,
                <<[tool |-> PyStr("keyword_search"), args |-> PyDict(<<>>),
                   results |-> RecordList(1),
                   summary |-> _summarize_observation(RecordList(1)).text]>>,
                <<[tool |-> PyStr("keyword_search"), args |-> PyDict(<<>>),
                   results |-> RecordList(0),
                   summary |-> _summarize_observation(RecordList(0)).text],
                  [tool |-> PyStr("get_statistics"), args |-> PyDict(<<>>),
                   results |-> RecordList(5),
                   summary |-> _summarize_observation(RecordList(5)).text]>>}
          ELSE {<<>>}
    /\ \E case \in IF pc \in {"parse", "extract"}
                   THEN {<<PyStr(Wrapped(r[1], how)), r[2], how>> : r \in RecordTexts,
                           how \in {"bare", "padded", "fenced", "tagged", "prose",
                                    "braces", "trailing"}}
                           \cup {<<PyStr(text), PyNone, "none">> : text \in OtherTexts}
                   ELSE IF pc = "decide"
                   THEN {<<PyStr(text), PyNone, "running">> :
                            text \in PlannerTexts \cup {"Let me think about it."}}
                   ELSE IF pc = "synthesize"
                   THEN {<<PyStr(text), PyNone, "running">> : text \in AnswerTexts}
                   ELSE IF pc = "search"
                   THEN {<<PyStr(text), PyNone, "running">> : text \in {"", "a", "quantum"}}
                   ELSE {<<reply, PyNone, "running">> : reply \in LLMReplies} :
          /\ arg = case[1]
          /\ tool_args = case[2]
          /\ reason = case[3]
    /\ tool_name \in IF pc = "search" THEN {PyStr(tool) : tool \in SearchTools} ELSE {PyNone}
    /\ thought = PyNone
    /\ exec_name = PyNone
    /\ exec_args = PyNone
    /\ attempt = 1
    /\ cypher = PyNone
    /\ observation = PyNone
    /\ result = PyNone
    /\ invoked = <<>>
    /\ caught = "none"
    /\ executes = 0
    /\ gen_texts = <<>>
    /\ generated = PyNone
    /\ executed = <<>>
    /\ fallback = PyNone
    /\ llm_calls = <<>>
    /\ mock = MockOff

\* action_decision = self._decide_action(question, thought_chain, step_number)
Decide ==
    /\ pc = "decide"
    /\ result' = _decide_action(question, thought_chain, step, arg.s)
    /\ llm_calls' = IF AsksLLM(question, thought_chain, step) THEN <<"plan">> ELSE <<>>
    /\ pc' = "decided"
    /\ UNCHANGED <<question, db, mock, observation, reason, loop_vars, exec_vars, cypher_vars>>

\* result = self._parse_json(raw)
Parse ==
    /\ pc = "parse"
    /\ result' = _parse_json(arg.s)
    /\ pc' = "parsed"
    /\ UNCHANGED <<question, db, mock, llm_calls, observation, reason, loop_vars, exec_vars, cypher_vars>>

\* result = self._extract_json(raw)
Extract ==
    /\ pc = "extract"
    /\ result' = _extract_json(arg.s)
    /\ pc' = "extracted"
    /\ UNCHANGED <<question, db, mock, llm_calls, observation, reason, loop_vars, exec_vars, cypher_vars>>

\* answer = self._generate_final_answer(question, all_observations)
Synthesize ==
    /\ pc = "synthesize"
    /\ result' = PyStr(_generate_final_answer(all_observations, arg.s))
    /\ llm_calls' = IF all_observations = <<>> THEN <<>> ELSE <<"answer">>
    /\ pc' = "synthesized"
    /\ UNCHANGED <<question, db, mock, observation, reason, loop_vars, exec_vars, cypher_vars>>

\* the one requests.post of _call_llm and what the adapter makes of it
CallLLM ==
    /\ pc = "call_llm"
    /\ result' = _call_llm(arg)
    /\ executes' = executes + 1
    /\ pc' = "called_llm"
    /\ UNCHANGED <<question, db, mock, llm_calls, observation, reason, loop_vars, cypher_vars>>
    /\ UNCHANGED <<exec_name, exec_args, attempt, invoked, caught>>

\* the one requests.post of _call_ollama and what the adapter makes of it
CallOllama ==
    /\ pc = "call_ollama"
    /\ result' = _call_ollama(arg)
    /\ executes' = executes + 1
    /\ pc' = "called_ollama"
    /\ UNCHANGED <<question, db, mock, llm_calls, observation, reason, loop_vars, cypher_vars>>
    /\ UNCHANGED <<exec_name, exec_args, attempt, invoked, caught>>

\* observation = self.tools[tool_name](arg), on a store that answers
Search ==
    /\ pc = "search"
    /\ result' = CallTool(tool_name.s, db, arg, FALSE, FALSE)
    /\ observation' = result'.result
    /\ executes' = executes + 1
    /\ pc' = "searched"
    /\ UNCHANGED <<question, db, mock, llm_calls, reason, loop_vars, cypher_vars>>
    /\ UNCHANGED <<exec_name, exec_args, attempt, invoked, caught>>

FunctionNext ==
    \/ Decide
    \/ Parse
    \/ Extract
    \/ Synthesize
    \/ CallLLM
    \/ CallOllama
    \/ Search

FunctionSpec == FunctionInit /\ [][FunctionNext]_vars

(***************************************************************************)
(* Properties                                                              *)
(***************************************************************************)
\* the denylisted keywords in lower case
WriteWords == [n \in 1..Len(BLOCKED_CYPHER_KEYWORDS) |-> lower(BLOCKED_CYPHER_KEYWORDS[n])]

\* q holds one of the denylisted keywords as a whole word, in any letter case:
\* some stretch of q spells the keyword and has no word character on either side
HasWriteKeyword(q) ==
    LET folded == lower(q)
    IN  \E n \in 1..Len(BLOCKED_CYPHER_KEYWORDS) :
            \E i \in 1..Len(q) :
                LET j == i + Len(BLOCKED_CYPHER_KEYWORDS[n]) - 1
                IN  /\ j <= Len(q)
                    /\ SubSeq(folded, i, j) = WriteWords[n]
                    /\ i = 1 \/ ~IsWordChar(At(q, i - 1))
                    /\ j = Len(q) \/ ~IsWordChar(At(q, j + 1))

\* the query of the first element of gen_texts, when it is a mapping with a string query
FirstQuery ==
    LET first == _extract_json(gen_texts[1])
    IN  IF gen_texts # <<>> /\ IsDict(first) /\ HasKey(first, "cypher")
             /\ IsStr(DictGet(first, "cypher"))
        THEN DictGet(first, "cypher").s ELSE ""

\* C1: whatever the LLM answers, on the first attempt or on the retry, a query that
\* generate_cypher returns is a string without any denylisted keyword as a whole
\* word in any letter case, and so is every query passed to execute_query
C1_NoWriteQueryReturnedOrExecuted ==
    /\ generated # PyNone /\ DictGet(generated, "cypher") # PyNone
          => /\ IsStr(DictGet(generated, "cypher"))
             /\ ~HasWriteKeyword(DictGet(generated, "cypher").s)
    /\ \A i \in 1..Len(executed) : ~HasWriteKeyword(executed[i])
    /\ pc = "query" => cypher = DictGet(generated, "cypher") /\ ~HasWriteKeyword(cypher.s)

\* C1's case: the LLM answered with a query that writes, in lower case, and
\* generate_cypher returned the unsafe-query error instead of it
C1_LowerCaseWriteBlocked ==
    /\ pc = "fallback"
    /\ executed = <<>>
    /\ HasWriteKeyword(FirstQuery) /\ FirstQuery = lower(FirstQuery)
    /\ DictGet(generated, "cypher") = PyNone
    /\ DictGet(generated, "error") = PyStr("unsafe_query")

\* C2: in one run() _execute_tool is called at most 3 times and the thought chain,
\* also the one returned, never has more than 3 steps
C2_AtMostThreeExecutions ==
    /\ executes <= 3
    /\ Len(thought_chain) <= 3
    /\ result # PyNone => Len(result.thought_chain) <= 3 /\ result.steps_taken <= 3

\* C2's case: a run that used all three steps has returned
C2_ThreeStepsDone ==
    /\ pc = "done"
    /\ executes = 3
    /\ Len(result.thought_chain) = 3
    /\ reason = "MAX_STEPS"

\* C3: run() never raises, whatever the LLM answers and whatever the tools do
C3_RunNeverRaises == pc # "raised"

\* control is inside run(): the run has neither returned nor raised
Running ==
    pc \in {"plan", "execute", "retry", "generate", "regenerate", "query", "fallback",
            "observe", "finish", "answer"}

\* C4: a run whose calls all return goes on until it is DONE, and it is DONE only
\* after FINISH, after the step counter reached MAX_STEPS, or after the sufficiency
\* check passed with at least 2 completed steps
C4_ReachesDoneInThreeWays ==
    /\ pc = "done" \/ Running
    /\ pc = "done" =>
          \/ reason = "FINISH"
          \/ reason = "MAX_STEPS" /\ step = MAX_STEPS
          \/ reason = "sufficient" /\ Len(thought_chain) >= 2

\* C10: _safety_check rejects a query exactly when the query holds a denylisted
\* keyword as a whole word in some letter case; a keyword inside a longer word
\* does not count, and the read-only words are accepted
C10_RejectsExactlyWholeWordKeywords ==
    pc = "checked" => (generated # PyNone <=> HasWriteKeyword(cypher.s))

\* C10's case: a query with a keyword inside a longer word next to a read-only
\* word has been checked and accepted
C10_LongerWordAccepted ==
    /\ pc = "checked"
    /\ cypher = PyStr("MATCH dataset")
    /\ generated = PyNone

\* _execute_tool has been entered and run() has not yet recorded its observation
Executing == pc \in {"retry", "generate", "regenerate", "query", "fallback", "observe"}

\* what _execute_tool returns for a tool that ended as outcome
ReturnedFor(outcome) == IF outcome.kind = "ok" THEN outcome.result ELSE PyList(<<>>)

\* the step from an observation that a raising tool left: run() records it
RecordsFailedStep ==
    pc = "observe" /\ caught # "none" =>
        /\ Len(thought_chain') = Len(thought_chain) + 1
        /\ thought_chain'[Len(thought_chain')].step = step + 1
        /\ thought_chain'[Len(thought_chain')].observation = "No results found."
        /\ thought_chain'[Len(thought_chain')].raw_results = PyList(<<>>)
        /\ pc' = IF step + 1 < 3 THEN "plan" ELSE "answer"

\* C5: when the tool of step k ends by raising, _execute_tool returns the empty
\* list, run() records step k with the summary 'No results found.', and goes on
\* to plan step k+1 when k < MAX_STEPS and to the answer otherwise; it does not raise
C5_FailedToolIsRecordedAndLoopGoesOn ==
    /\ [](pc = "observe" /\ caught # "none" => observation = PyList(<<>>))
    /\ [][RecordsFailedStep]_vars

\* C5's case: the tool of step 2 raised and _execute_tool returned the empty list
C5_SecondStepToolRaised ==
    /\ pc = "observe"
    /\ caught = "Exception"
    /\ step = 1
    /\ Len(thought_chain) = 1
    /\ observation = PyList(<<>>)

\* the query _execute_tool makes of an argument mapping: its first value, or ""
QueryOf(mapping) ==
    IF mapping.items = <<>> THEN PyStr("") ELSE mapping.items[1].val

\* C6: for a tool name that is not in the registry and any argument mapping,
\* _execute_tool calls keyword_search once, with query = the first value of the
\* mapping ("" for the empty mapping), and returns what that call returns (the
\* empty list when it raises); it does not raise
C6_UnknownToolBecomesKeywordSearch ==
    Executing /\ Hashable(tool_name) /\ ~InRegistry(tool_name) /\ IsDict(tool_args) =>
        /\ pc = "observe"
        /\ invoked = <<Invocation("keyword_search", "keywords",
                                  PyDict(<<Field("query", QueryOf(tool_args))>>))>>
        /\ \E fails1, fails2 \in BOOLEAN :
              observation =
                  ReturnedFor(_tool_keyword_search(db, QueryOf(tool_args), fails1, fails2))

\* C6's case: the unregistered tool web_search was asked for, and the papers that
\* keyword_search finds for its first argument value came back
C6_UnknownToolFoundPapers ==
    /\ pc = "observe"
    /\ tool_name = PyStr("web_search")
    /\ QueryOf(tool_args) = PyStr("attention")
    /\ observation = _tool_keyword_search(db, PyStr("attention"), FALSE, FALSE).result
    /\ Truthy(observation)

\* the call of a tool other than cypher_search with one positional argument
PositionalCall(tool, val, fails1, fails2) ==
    IF tool = "get_statistics" THEN Raised("TypeError")
    ELSE CallTool(tool, db, val, fails1, fails2)

\* a step of _execute_tool ends in _execute_tool or with its return to run()
StaysInExecutor ==
    pc \in {"execute", "retry"} => pc' \in {"retry", "generate", "observe"}

\* C7: when the argument mapping does not fit the tool, _execute_tool calls the
\* same tool once more, positionally, with the first value of the mapping (or "");
\* it returns what the retry returns, and the empty list when the retry raises.
\* No _execute_tool invokes the tool more than twice or lets an exception out
C7_MismatchRetriedOncePositionally ==
    /\ [](Len(invoked) <= 2)
    /\ [](Executing /\ pc # "retry" /\ attempt = 2 /\ InRegistry(exec_name) /\ IsDict(exec_args)
            => /\ Len(invoked) = 2
               /\ invoked[1].tool = exec_name.s /\ invoked[1].style = "keywords"
               /\ invoked[2] = Invocation(exec_name.s, "positional", QueryOf(exec_args)))
    /\ [](pc = "observe" /\ attempt = 2 /\ Len(invoked) = 2 /\ exec_name # PyStr("cypher_search")
            => \E fails1, fails2 \in BOOLEAN :
                  observation = ReturnedFor(PositionalCall(exec_name.s, QueryOf(exec_args),
                                                           fails1, fails2)))
    /\ [][StaysInExecutor]_vars

\* C7's case: topic_search was given the keyword query instead of topic, and the
\* positional retry with that value found papers
C7_RetryFoundPapers ==
    /\ pc = "observe"
    /\ attempt = 2
    /\ invoked = <<Invocation("topic_search", "keywords",
                              PyDict(<<Field("query", PyStr("graphs"))>>)),
                   Invocation("topic_search", "positional", PyStr("graphs"))>>
    /\ Truthy(observation)

\* C8 as stated: the fallback of cypher_search returns exactly what the registered
\* keyword-search tool returns for the question
C8_FallbackIsRegisteredKeywordSearch ==
    fallback # PyNone =>
        \E fails2 \in BOOLEAN :
            fallback.outcome =
                _tool_keyword_search(db, fallback.question, fallback.fails, fails2)

\* C8, amended: when generate_cypher returns no query, or the execution of its
\* query fails, cypher_search returns exactly what the store's keyword search
\* (search_papers_by_keyword) returns for the original question, without the
\* empty-query guard and the first-word retry of the registered tool; when that
\* search raises, _execute_tool returns the empty list
C8_FallbackIsStoreKeywordSearch ==
    /\ generated # PyNone /\ ~Truthy(DictGet(generated, "cypher"))
          => pc = "fallback" \/ (pc = "observe" /\ fallback # PyNone)
    /\ fallback # PyNone =>
          /\ pc = "observe"
          /\ fallback.question = arg
          /\ arg = invoked[Len(invoked)].passed \/ arg = QueryOf(invoked[Len(invoked)].passed)
          /\ fallback.outcome = search_papers_by_keyword(db, arg, fallback.fails)
          /\ observation = ReturnedFor(fallback.outcome)

\* C8's case: both attempts of generate_cypher failed, the store found nothing for
\* the question of three words, and nothing is what came back, although the store
\* holds papers for the first word
C8_FallbackWithoutFirstWordRetry ==
    /\ pc = "observe"
    /\ fallback # PyNone /\ ~fallback.fails
    /\ IsDict(generated)
    /\ DictGetDefault(generated, "error", PyNone) = PyStr("JSON parse failed both attempts")
    /\ arg = PyStr("deep quantum fields")
    /\ observation = PyList(<<>>)
    /\ Truthy(_tool_keyword_search(db, arg, FALSE, FALSE).result)

\* C9: generate_cypher asks the LLM at most twice, the second time exactly when the
\* first response does not parse to a mapping with the query field; a first
\* response with an unsafe query gives the unsafe-query error without a retry; a
\* retry without the query field gives an error result with a null query
C9_SecondCallIffFirstUnusable ==
    /\ Len(gen_texts) <= 2
    /\ generated # PyNone =>
          LET first  == _extract_json(gen_texts[1])
              usable == IsDict(first) /\ HasKey(first, "cypher")
              second == _extract_json(gen_texts[2])
          IN  /\ Len(gen_texts) = 2 <=> ~usable
              /\ HasWriteKeyword(FirstQuery)
                    => /\ Len(gen_texts) = 1
                       /\ DictGetDefault(generated, "error", PyNone) = PyStr("unsafe_query")
              /\ Len(gen_texts) = 2 /\ ~(IsDict(second) /\ HasKey(second, "cypher"))
                    => DictGet(generated, "cypher") = PyNone /\ HasKey(generated, "error")

\* the tool and the arguments of a decision that is a mapping naming both
Chooses(decision, tool, args) ==
    /\ IsDict(decision)
    /\ DictGetDefault(decision, "tool", PyNone) = PyStr(tool)
    /\ DictGetDefault(decision, "args", PyNone) = args

\* the question, in lower case, holds one of the count phrases
AsksForCount ==
    \E w \in {"how many", "total", "count", "statistics", "overview"} :
        Contains(lower(question), w)

\* C11: for every question whose lower-case text holds 'how many', 'total', 'count',
\* 'statistics' or 'overview', the decision at step 1 is get_statistics with an empty
\* argument mapping, and no LLM call is made for it.
C11_CountQuestionGetsStatisticsWithoutLLM ==
    pc = "decided" /\ step = 1 /\ AsksForCount
        => Chooses(result, "get_statistics", PyDict(<<>>)) /\ llm_calls = <<>>

C11_CountInsideAWordGetsStatistics ==
    /\ pc = "decided"
    /\ step = 1
    /\ question = "an account of graphs"
    /\ Chooses(result, "get_statistics", PyDict(<<>>))
    /\ llm_calls = <<>>
    /\ mock = MockOff

\* the records the step before the decision returned
PrecedingResults == thought_chain[Len(thought_chain)].raw_results.items

\* C12: at every step >= 2, when the step before returned a record list of any
\* non-zero length the Planner returns FINISH without an LLM call, and when it
\* returned an empty list the Planner does not take this shortcut.
C12_FinishAfterAnyNonEmptyResults ==
    pc = "decided" /\ step >= 2
        => IF Len(PrecedingResults) > 0
           THEN Chooses(result, "FINISH", PyDict(<<>>)) /\ llm_calls = <<>>
           ELSE llm_calls = <<"plan">>

\* C13: for every question, thought chain, step number and LLM response, the
\* decision _decide_action returns is a mapping with thought, tool and args.
C13_DecisionIsMappingWithThoughtToolArgs ==
    pc = "decided"
        => /\ IsDict(result)
           /\ HasKey(result, "thought")
           /\ HasKey(result, "tool")
           /\ HasKey(result, "args")

\* C14: the tool of every decision run() reads is a registered tool or FINISH, and
\* every tool name recorded as the action of a step of the thought chain is a
\* registered tool name.
C14_DecidedAndRecordedToolsAreRegistered ==
    /\ pc \in {"execute", "finish"} => tool_name = PyStr("FINISH") \/ InRegistry(tool_name)
    /\ \A i \in 1..Len(thought_chain) : InRegistry(thought_chain[i].action)

\* C15: for every input text, _parse_json and _extract_json return a mapping or
\* null, never a number, a string, a boolean or a list.
C15_ParsersReturnMappingOrNull ==
    pc \in {"parsed", "extracted"} => result = PyNone \/ IsDict(result)

\* C16: for every text that holds one record, bare, fenced or within prose (prose
\* with braces included), _parse_json returns that record, and for every text that
\* holds no record it returns null.
C16_ParseRecoversTheEmbeddedRecord ==
    pc = "parsed" => result = tool_args

\* what a FINISH decision at step k = step + 1 leads to
FinishesWithoutTool ==
    pc = "finish" /\ pc' = "done"
        => /\ executes' = executes
           /\ executes = step
           /\ thought_chain' = thought_chain
           /\ result'.thought_chain = thought_chain
           /\ Len(all_observations) = step
           /\ all_observations' = all_observations
           /\ llm_calls' = IF step = 0 THEN llm_calls ELSE Append(llm_calls, "answer")
           /\ step = 0 =>
                 result'.answer = "I couldn't find relevant information for your question in the knowledge graph."
           /\ result'.success = TRUE

\* C17: when the Planner returns FINISH at step k, run() executes no tool at step k,
\* leaves the thought chain as it is, makes the answer from the k-1 observations
\* collected so far and returns success = true, also at k = 1 where there is none.
C17_FinishAnswersFromWhatWasCollected == [][FinishesWithoutTool]_vars

C17_FinishAtFirstStep ==
    /\ pc = "done"
    /\ reason = "FINISH"
    /\ step = 0
    /\ all_observations = <<>>
    /\ result.success = TRUE
    /\ result.answer = "I couldn't find relevant information for your question in the knowledge graph."

\* C18: when run() ends without a FINISH decision, the answer is made from all the
\* observations collected and success is true exactly when the answer is not empty
\* and its lower-case text does not hold "couldn't find".
C18_SuccessAfterLoopJudgedByAnswer ==
    pc = "done" /\ reason \in {"MAX_STEPS", "sufficient"}
        => /\ Len(all_observations) = Len(thought_chain)
           /\ Len(all_observations) = executes
           /\ llm_calls # <<>> /\ llm_calls[Len(llm_calls)] = "answer"
           /\ result.success =
                 (result.answer # "" /\ ~Contains(lower(result.answer), "couldn't find"))

C18_ApologyInCapitalsIsNoSuccess ==
    /\ pc = "done"
    /\ reason = "MAX_STEPS"
    /\ result.answer = "Sorry, I Couldn't Find it."
    /\ result.success = FALSE

\* the run got answer text from the LLM: the synthesis called it and the answer is
\* neither empty nor the fixed failure message
ProducedAnswerText ==
    /\ llm_calls # <<>> /\ llm_calls[Len(llm_calls)] = "answer"
    /\ result.answer \notin {"", "Could not generate an answer from the retrieved data."}

\* C19: success is false when, and only when, the run produced no answer text: false
\* when the LLM yields nothing for the synthesis or when no observation exists, true
\* when the run produced LLM answer text.
C19_FailureIffNoAnswerText ==
    pc = "done" => (result.success = FALSE <=> ~ProducedAnswerText)

\* t is s without the whitespace at its two ends
Trimmed(t, s) ==
    \E i \in 1..(Len(s) + 1), j \in 0..Len(s) :
        /\ t = SubSeq(s, i, j)
        /\ \A n \in 1..(i - 1) : IsSpace(At(s, n))
        /\ \A n \in (j + 1)..Len(s) : IsSpace(At(s, n))
        /\ t = "" \/ (~IsSpace(At(t, 1)) /\ ~IsSpace(At(t, Len(t))))

\* C20: _generate_final_answer with no observation returns the fixed
\* no-relevant-information message without an LLM call; with observations it makes
\* exactly one LLM call and returns the trimmed response, or the fixed failure
\* message when the LLM yields nothing.
C20_SynthesisCallsLLMOnceAndTrims ==
    pc = "synthesized"
        => IF all_observations = <<>>
           THEN /\ result = PyStr("I couldn't find relevant information for your question in the knowledge graph.")
                /\ llm_calls = <<>>
    /\ mock = MockOff
           ELSE /\ llm_calls = <<"answer">>
                /\ IF arg.s = ""
                   THEN result = PyStr("Could not generate an answer from the retrieved data.")
                   ELSE result.k = "str" /\ Trimmed(result.s, arg.s)

C20_ResponseReturnedTrimmed ==
    /\ pc = "synthesized"
    /\ all_observations # <<>>
    /\ arg = PyStr(" Deep Graph Nets has 90 citations. ")
    /\ result = PyStr("Deep Graph Nets has 90 citations.")
    /\ llm_calls = <<"answer">>

\* the request of the adapter failed: an exception, a status other than 200, or a
\* body that is not a mapping with a response
FailedCall ==
    \/ arg.kind # "response"
    \/ arg.status # 200
    \/ ~arg.parsed
    \/ arg.body.k # "dict"
    \/ ~HasKey(arg.body, "response")

\* C21: every failure of an LLM call (connection refused, non-200 status, timeout,
\* any other exception) gives the empty string in _call_llm and in _call_ollama and
\* never raises past the adapter, and a call makes one request, without retry.
C21_FailedCallsGiveEmptyStringOnce ==
    pc \in {"called_llm", "called_ollama"}
        => /\ result.kind = "ok"
           /\ executes = 1
           /\ FailedCall => result.result = PyStr("")

C21_TimeoutGivesEmptyString ==
    /\ pc = "called_ollama"
    /\ arg = Failed("Timeout")
    /\ result = Returned(PyStr(""))
    /\ executes = 1

\* C23: there is a fixed small limit, independent of the store's content, on the
\* records a tool returns and the loop records; the largest limit any query of the
\* store carries is that of get_most_cited_papers(10).
C23_ToolsReturnAtMostMostCitedRecords ==
    pc = "searched" => Len(observation.items) <= MostCited

\* every search with a string returns all the papers that match
C23_SearchReturnsEveryMatch ==
    pc = "searched" /\ arg.s = "a" => Len(observation.items) = Len(db)

C23_ElevenPapersOfOneInstitution ==
    /\ pc = "searched"
    /\ tool_name = PyStr("institution_search")
    /\ Len(db) = MaxPapers
    /\ Len(observation.items) = MaxPapers

\* the question names an institution or holds an institution word
AsksForInstitution ==
    \E w \in {"university", "college", "institution", "iit", "mit", "stanford"} :
        Contains(lower(question), w)

\* the places of text where a stop phrase begins after place from
StopPlaces(text, from) ==
    {FindFrom(text, " " \o w, from) : w \in {"paper", "author", "research"}} \ {0}

\* the text that follows "from" in text, up to the first stop phrase or to the end,
\* and IIT when text has no "from"
NameAfterFrom(text) ==
    LET lq   == lower(text)
        from == FindFrom(lq, "from ", 1)
        end  == IF StopPlaces(lq, from + 5) = {} THEN Len(text) + 1
                ELSE CHOOSE e \in StopPlaces(lq, from + 5) :
                        \A x \in StopPlaces(lq, from + 5) : e <= x
    IN  IF from = 0 THEN "IIT" ELSE strip(SubSeq(text, from + 5, end - 1))

EnoughObserved ==
    \/ observation.k = "dict" /\ HasKey(observation, "total_papers")
    \/ observation.k = "list" /\ Len(observation.items) >= 3

\* step k has just been recorded
RecordedStep(k) ==
    /\ pc = "observe"
    /\ Len(thought_chain') = k
    /\ Len(thought_chain) = k - 1

StopsEarlyOnlyFromSecondStep ==
    /\ \A k \in 1..MAX_STEPS :
          RecordedStep(k)
              => /\ (pc' = "answer" /\ reason' = "sufficient") <=> (k >= 2 /\ EnoughObserved)
                 /\ pc' = "plan" <=> (k < MAX_STEPS /\ ~(k >= 2 /\ EnoughObserved))
    /\ pc' = "done" /\ reason' # "FINISH" => executes' >= 2

\* C25: after recording step k the loop stops early iff k >= 2 and the observation
\* is sufficient (a statistics record or at least 3 records); after step 1 it never
\* stops on sufficiency, so a run without a FINISH decision makes at least 2 tool
\* calls, also when step 1 returned a statistics record.
C25_EarlyStopIffSufficientAfterSecondStep == [][StopsEarlyOnlyFromSecondStep]_vars

C25_StatisticsAtStepOneThenSecondCall ==
    /\ pc = "done"
    /\ reason = "sufficient"
    /\ Len(result.thought_chain) = 2
    /\ IsStatistics(result.thought_chain[1].raw_results)
    /\ executes = 2

ChainGrowsByOneStep ==
    /\ thought_chain' # thought_chain
          => /\ pc = "observe"
             /\ Len(thought_chain') = Len(thought_chain) + 1
             /\ SubSeq(thought_chain', 1, Len(thought_chain)) = thought_chain
             /\ Len(thought_chain') = executes'
    /\ \A k \in 1..Len(thought_chain') : thought_chain'[k].step = k
    /\ pc' = "plan" => Len(thought_chain') = (step' + 1) - 1
    /\ pc' = "done" => result'.thought_chain = thought_chain'

\* C26: within one run the thought chain is append-only: it changes only by the
\* append of one Step after a tool execution, recorded Steps stay as they are and
\* where they are, the k-th Step carries index k, and the Planner at step k gets
\* exactly the k-1 Steps recorded so far.
C26_ThoughtChainIsAppendOnly == [][ChainGrowsByOneStep]_vars

C26_PlannerAtThirdStepGetsTwoSteps ==
    /\ pc = "plan"
    /\ step + 1 = 3
    /\ Len(thought_chain) = 2
    /\ thought_chain[1].step = 1
    /\ thought_chain[2].step = 2

\* for each question, its first four words of more than 3 characters, joined in
\* their order, or the question itself when it has no such word
FallbackQueries ==
    {<<"how many papers", "many papers">>,
     <<"papers from IIT Tirupati", "papers from Tirupati">>,
     <<"deep graph neural nets", "deep graph neural nets">>,
     <<"Total citations", "Total citations">>,
     <<"an account of graphs", "account graphs">>,
     <<"STATISTICS", "STATISTICS">>,
     <<"Overview of MIT papers", "Overview papers">>,
     <<"attention", "attention">>,
     <<"work from Stanford University research group", "work from Stanford University">>,
     <<"Papers FROM mit", "Papers FROM">>,
     <<"best college authors", "best college authors">>,
     <<"how many papers from MIT", "many papers from">>,
     <<"what are the best deep graph neural network papers", "what best deep graph">>,
     <<"who is he", "who is he">>}

\* C27: when the LLM's decision cannot be parsed, the Planner returns keyword_search
\* with query = the first four words of the question longer than 3 characters, in
\* their order, or the whole question when no word is longer than 3 characters.
C27_UnparsedDecisionFallsBackToKeywords ==
    pc = "decided" /\ llm_calls = <<"plan">> /\ _parse_json(arg.s) = PyNone
        => /\ \E q \in FallbackQueries : q[1] = question
           /\ \A q \in FallbackQueries :
                 q[1] = question
                    => Chooses(result, "keyword_search",
                               PyDict(<<Field("query", PyStr(q[2]))>>))

C27_FirstFourLongWords ==
    /\ pc = "decided"
    /\ llm_calls = <<"plan">>
    /\ arg = PyStr("Let me think about it.")
    /\ question = "what are the best deep graph neural network papers"
    /\ Chooses(result, "keyword_search", PyDict(<<Field("query", PyStr("what best deep graph"))>>))

C27_NoLongWordKeepsTheQuestion ==
    /\ pc = "decided"
    /\ llm_calls = <<"plan">>
    /\ arg = PyStr("")
    /\ question = "who is he"
    /\ Chooses(result, "keyword_search", PyDict(<<Field("query", PyStr("who is he"))>>))

\* C28: on every exit of run() (FINISH decision, early stop, step bound exhausted)
\* steps_taken equals the number of Steps in the returned thought chain, which
\* equals the number of tool calls the Executor made in the run.
C28_StepsTakenCountsStepsAndToolCalls ==
    pc = "done"
        => /\ reason \in {"FINISH", "sufficient", "MAX_STEPS"}
           /\ result.steps_taken = Len(result.thought_chain)
           /\ Len(result.thought_chain) = executes

C28_FinishAfterOneToolCall ==
    /\ pc = "done"
    /\ reason = "FINISH"
    /\ result.steps_taken = 1
    /\ Len(result.thought_chain) = 1
    /\ executes = 1

\* the number of synthesis calls among the LLM calls made
RECURSIVE AnswerCalls(_)
AnswerCalls(calls) ==
    IF calls = <<>> THEN 0
    ELSE (IF Head(calls) = "answer" THEN 1 ELSE 0) + AnswerCalls(Tail(calls))

\* a run that returns ends by its one synthesis, and nothing follows the synthesis
SynthesisOnceAndLast ==
    /\ pc' = "done" /\ pc # "done" => pc \in {"finish", "answer"}
    /\ pc \in {"finish", "answer"} => pc' = "done" /\ executes' = executes
    /\ AnswerCalls(llm_calls') <= 1
    /\ AnswerCalls(llm_calls) = 1 => pc = "done"

SynthesisEndsEveryRun ==
    /\ SynthesisOnceAndLast
    /\ pc # pc' /\ ~Running' => pc \in {"finish", "answer"}

\* C29: every run() performs answer synthesis exactly once, as its last operation:
\* no Planner call and no tool execution follows it, and the Planner is not called
\* again after FINISH or after the loop stopped early.
C29_EveryRunEndsBySynthesis == [][SynthesisEndsEveryRun]_vars

\* the runs that return synthesise once, at their end
C29_ReturningRunsEndBySynthesis == [][SynthesisOnceAndLast]_vars

\* C30: the answer of every AgentResult is a non-empty string, whatever the LLM
\* responds to the synthesis call (an empty response and a response of whitespace
\* included).
C30_AnswerIsNeverEmpty ==
    pc = "done" => result.answer # ""

\* an empty response to the synthesis call is replaced by the fixed message
C30_EmptyResponseGetsTheFixedMessage ==
    pc = "synthesized" /\ arg.s = ""
        => result.s \in {"Could not generate an answer from the retrieved data.",
                         "I couldn't find relevant information for your question in the knowledge graph."}

\* the kind of response that the run asks for next, "none" when it asks for none
Asks ==
    CASE pc = "plan" /\ AsksLLM(question, thought_chain, step + 1) -> "plan"
      [] pc \in {"execute", "retry"}         -> "store"
      [] pc \in {"generate", "regenerate"}   -> "cypher"
      [] pc = "query"                        -> "query"
      [] pc = "fallback"                     -> "search"
      [] pc \in {"finish", "answer"}         -> "answer"
      [] OTHER                               -> "none"

\* C22: with the same question and the same sequence of LLM and tool responses, a
\* second run on the same agent asks for the same responses in the same order and
\* ends as the first did, with the same thought chain and the same answer: a run
\* reads nothing that another run has written.
C22_SecondRunRepeatsTheFirst ==
    mock.mode = "replay"
        => /\ Asks # "none" => mock.tape # <<>> /\ Head(mock.tape).kind = Asks
           /\ ~Running
                 => /\ mock.tape = <<>>
                    /\ pc = mock.previous.pc
                    /\ pc = "done"
                          => /\ result.thought_chain = mock.previous.result.thought_chain
                             /\ result.answer = mock.previous.result.answer

C22_SecondRunWithThreeSteps ==
    /\ mock.mode = "replay"
    /\ pc = "done"
    /\ Len(mock.script) >= 7
    /\ Len(result.thought_chain) = 3
    /\ result = mock.previous.result

====
